---- MODULE Spec2Model ----
(***************************************************************************)
(* juniper_codegen, graphql_interface: the attribute-argument parsers      *)
(* (InterfaceMeta, ImplementerMeta, TraitMethodMeta, ArgumentMeta), their  *)
(* merge over several annotation sites, and the code emitter of a          *)
(* Definition.                                                             *)
(*                                                                         *)
(* Specification Spec runs one from_attrs call: the fold over the          *)
(* annotation sites of one declaration, each site parsed argument by       *)
(* argument, merged into the accumulator, and validated at the end.        *)
(***************************************************************************)
EXTENDS Integers, Sequences, FiniteSets, TLC

VARIABLES
    kind,      \* which from_attrs runs: the struct the attributes are parsed into
    pc,        \* position in from_attrs: "fold", "parse" or "done"
    prev,      \* accumulator of try_fold: the sites merged so far
    output,    \* `output` of parse: the record of the site being parsed
    nargs,     \* arguments consumed so far, all sites together
    written,   \* history: per site, how often each option was written
    result,    \* what from_attrs returned
    attrs,     \* the doc comment and #[deprecated] of the declaration, once read
    stage,     \* position of the macro expansion: "trait", "expanded", "failed"
    trait,     \* the trait declaration, as far as its items were read
    trait_meta, \* the merged InterfaceMeta of the trait
    implementer_tys, \* the implementer types the builder worked on, in its order
    expansion, \* the Definition built from them, or the build error
    tokens,    \* what Definition::to_tokens emitted
    trait_generics, \* the generics of a trait declaration, as parsed
    cloned,    \* the clone of them GenericsExt works on
    ext_calls  \* the GenericsExt methods called on the clone, in order

attrvars == <<kind, pc, prev, output, nargs, written, result, attrs>>
genvars == <<stage, trait, trait_meta, implementer_tys, expansion, tokens>>
extvars == <<trait_generics, cloned, ext_calls>>
vars == <<attrvars, genvars, extvars>>

(***************************************************************************)
(* Bounds                                                                  *)
(***************************************************************************)
MaxArgs == 2     \* arguments written on one declaration, all sites together
MaxSites == 2    \* annotation sites (attributes) on one declaration
MaxItems == 2    \* items (methods) of the trait declaration
MaxParams == 2   \* generic parameters of the trait declaration
MaxCalls == 3    \* GenericsExt calls on one clone

(***************************************************************************)
(* Option<T>: None is the empty sequence, Some(v) the one-element sequence *)
(***************************************************************************)
None == <<>>
Some(v) == <<v>>
is_some(o) == o # <<>>
is_none(o) == o = <<>>

\* Implementer types that annotations name.
Types == {"User", "Post"}

\* Paths of external downcast functions that `on Type = path` can name.
Paths == {"as_a", "as_b"}

\* Lists a `for = [..]` argument can hold (a bare type is the one-element list).
TyLists == {<<>>} \cup {<<t>> : t \in Types} \cup {<<s, t>> : s, t \in Types}

Kinds == {"InterfaceMeta", "ImplementerMeta", "TraitMethodMeta", "ArgumentMeta"}

\* Identifiers that are Rust keywords: syn::Ident's Parse rejects them,
\* parse_any_ident accepts them.
RustKeywords == {"for", "dyn", "enum", "async"}

\* Every identifier an argument can start with.
Idents ==
    {"name", "desc", "description", "ctx", "context", "Context", "scalar",
     "Scalar", "ScalarValue", "for", "implementers", "dyn", "enum", "async",
     "on", "internal", "deprecated", "ignore", "skip", "downcast", "default",
     "exec", "executor", "bogus"}

(***************************************************************************)
(* Results and errors                                                      *)
(***************************************************************************)
NoErr == [kind |-> "", arg |-> ""]
dup_arg(a) == [kind |-> "dup_arg", arg |-> a]
unknown_arg(a) == [kind |-> "unknown_arg", arg |-> a]
syntax_err(a) == [kind |-> "syntax", arg |-> a]
not_composable(a) == [kind |-> "not_composable", arg |-> a]

Ok(v) == [ok |-> TRUE, val |-> v, err |-> NoErr]
Err(e) == [ok |-> FALSE, val |-> None, err |-> e]

Pending == [status |-> "pending", meta |-> None, err |-> NoErr]
Returned(r) ==
    IF r.ok THEN [status |-> "ok", meta |-> Some(r.val), err |-> NoErr]
            ELSE [status |-> "err", meta |-> None, err |-> r.err]

(***************************************************************************)
(* The four records, as Self::default() builds them                        *)
(***************************************************************************)
InterfaceMeta_default ==
    [name |-> None, description |-> None, as_enum |-> None, as_dyn |-> None,
     implementers |-> {}, context |-> None, scalar |-> None,
     asyncness |-> None, external_downcasts |-> {}, is_internal |-> FALSE]

ImplementerMeta_default ==
    [scalar |-> None, asyncness |-> None, as_dyn |-> None]

TraitMethodMeta_default ==
    [name |-> None, description |-> None, deprecated |-> None,
     ignore |-> None, downcast |-> None]

ArgumentMeta_default ==
    [name |-> None, description |-> None, default |-> None,
     context |-> None, executor |-> None]

Default(k) ==
    CASE k = "InterfaceMeta" -> InterfaceMeta_default
      [] k = "ImplementerMeta" -> ImplementerMeta_default
      [] k = "TraitMethodMeta" -> TraitMethodMeta_default
      [] k = "ArgumentMeta" -> ArgumentMeta_default

(***************************************************************************)
(* One argument of an attribute, as the token stream holds it:             *)
(*   key  the identifier it starts with                                    *)
(*   val  the `= value` after it (None for a flag)                         *)
(*   tys  the types of `for = [..]`, or the type of `on Type = path`       *)
(***************************************************************************)
Arg(k, v, tys) == [key |-> k, val |-> v, tys |-> tys]

ArgValue == "value"

\* The arguments each parser is fed: every identifier, in the token shape the
\* parser reads for it (an identifier the parser does not know is a flag).
InterfaceMeta_args ==
    {Arg(k, Some(ArgValue), <<>>) :
        k \in {"name", "desc", "description", "ctx", "context", "Context",
               "scalar", "Scalar", "ScalarValue", "dyn", "enum"}}
    \cup {Arg(k, None, l) : k \in {"for", "implementers"}, l \in TyLists}
    \cup {Arg("on", Some(p), <<t>>) : p \in Paths, t \in Types}
    \cup {Arg(k, None, <<>>) :
        k \in Idents \ {"name", "desc", "description", "ctx", "context",
                        "Context", "scalar", "Scalar", "ScalarValue", "dyn",
                        "enum", "for", "implementers", "on"}}

ImplementerMeta_args ==
    {Arg(k, Some(ArgValue), <<>>) : k \in {"scalar", "Scalar", "ScalarValue"}}
    \cup {Arg(k, None, <<>>) :
        k \in Idents \ {"scalar", "Scalar", "ScalarValue"}}

TraitMethodMeta_args ==
    {Arg(k, Some(ArgValue), <<>>) :
        k \in {"name", "desc", "description", "deprecated"}}
    \cup {Arg(k, None, <<>>) : k \in Idents \ {"name", "desc", "description"}}

ArgumentMeta_args ==
    {Arg(k, Some(ArgValue), <<>>) :
        k \in {"name", "desc", "description", "default"}}
    \cup {Arg(k, None, <<>>) : k \in Idents \ {"name", "desc", "description"}}

Args(k) ==
    CASE k = "InterfaceMeta" -> InterfaceMeta_args
      [] k = "ImplementerMeta" -> ImplementerMeta_args
      [] k = "TraitMethodMeta" -> TraitMethodMeta_args
      [] k = "ArgumentMeta" -> ArgumentMeta_args

(***************************************************************************)
(* Helpers of the parsers                                                  *)
(***************************************************************************)
\* output.field.replace(v).none_or_else(|_| err::dup_arg(ident))?
replace_none_or_else(out, field, v, ident) ==
    IF is_some(out[field]) THEN Err(dup_arg(ident))
    ELSE Ok([out EXCEPT ![field] = Some(v)])

\* input.parse_any_ident()?: keywords are identifiers too.
parse_any_ident(k) == Ok(k)

\* input.parse::<syn::Ident>()?: a keyword is no identifier.
parse_ident(k) == IF k \in RustKeywords THEN Err(syntax_err(k)) ELSE Ok(k)

\* The loop over the types of `for = [..]`, each replaced into the set.
RECURSIVE replace_implementers(_, _)
replace_implementers(out, tys) ==
    IF tys = <<>> THEN Ok(out)
    ELSE IF Head(tys) \in out.implementers THEN Err(dup_arg(Head(tys)))
    ELSE replace_implementers(
            [out EXCEPT !.implementers = @ \cup {Head(tys)}], Tail(tys))

\* The keys of the external_downcasts map.
downcast_tys(m) == {e[1] : e \in m}

(***************************************************************************)
(* One iteration of the `while !input.is_empty()` loop of each parser      *)
(***************************************************************************)
InterfaceMeta_parse(out, arg) ==
    LET ident == parse_any_ident(arg.key) IN
    IF ~ident.ok THEN ident
    ELSE CASE arg.key = "name" ->
                replace_none_or_else(out, "name", arg.val[1], arg.key)
           [] arg.key \in {"desc", "description"} ->
                replace_none_or_else(out, "description", arg.val[1], arg.key)
           [] arg.key \in {"ctx", "context", "Context"} ->
                replace_none_or_else(out, "context", arg.val[1], arg.key)
           [] arg.key \in {"scalar", "Scalar", "ScalarValue"} ->
                replace_none_or_else(out, "scalar", arg.val[1], arg.key)
           [] arg.key \in {"for", "implementers"} ->
                replace_implementers(out, arg.tys)
           [] arg.key = "dyn" ->
                replace_none_or_else(out, "as_dyn", arg.val[1], arg.key)
           [] arg.key = "enum" ->
                replace_none_or_else(out, "as_enum", arg.val[1], arg.key)
           [] arg.key = "async" ->
                replace_none_or_else(out, "asyncness", arg.key, arg.key)
           [] arg.key = "on" ->
                IF arg.tys[1] \in downcast_tys(out.external_downcasts)
                THEN Err(dup_arg(arg.tys[1]))
                ELSE Ok([out EXCEPT !.external_downcasts =
                            @ \cup {<<arg.tys[1], arg.val[1]>>}])
           [] arg.key = "internal" ->
                Ok([out EXCEPT !.is_internal = TRUE])
           [] OTHER -> Err(unknown_arg(arg.key))

ImplementerMeta_parse_skip_unknown(out, arg) ==
    LET ident == parse_any_ident(arg.key) IN
    IF ~ident.ok THEN ident
    ELSE CASE arg.key \in {"scalar", "Scalar", "ScalarValue"} ->
                replace_none_or_else(out, "scalar", arg.val[1], arg.key)
           [] arg.key = "dyn" ->
                replace_none_or_else(out, "as_dyn", arg.key, arg.key)
           [] arg.key = "async" ->
                replace_none_or_else(out, "asyncness", arg.key, arg.key)
           [] OTHER -> Ok(out)

ImplementerMeta_parse(out, arg) ==
    LET ident == parse_any_ident(arg.key) IN
    IF ~ident.ok THEN ident
    ELSE CASE arg.key \in {"scalar", "Scalar", "ScalarValue"} ->
                replace_none_or_else(out, "scalar", arg.val[1], arg.key)
           [] arg.key = "dyn" ->
                replace_none_or_else(out, "as_dyn", arg.key, arg.key)
           [] arg.key = "async" ->
                replace_none_or_else(out, "asyncness", arg.key, arg.key)
           [] OTHER -> Err(unknown_arg(arg.key))

\* `skip` is an option of its own that sets the same flag.
TraitMethodMeta_parse_skip_apart(out, arg) ==
    LET ident == parse_ident(arg.key) IN
    IF ~ident.ok THEN ident
    ELSE CASE arg.key = "name" ->
                replace_none_or_else(out, "name", arg.val[1], arg.key)
           [] arg.key \in {"desc", "description"} ->
                replace_none_or_else(out, "description", arg.val[1], arg.key)
           [] arg.key = "deprecated" ->
                replace_none_or_else(out, "deprecated", arg.val, arg.key)
           [] arg.key = "ignore" ->
                replace_none_or_else(out, "ignore", arg.key, arg.key)
           [] arg.key = "skip" ->
                IF out.ignore = Some("skip") THEN Err(dup_arg(arg.key))
                ELSE Ok([out EXCEPT !.ignore = Some("skip")])
           [] arg.key = "downcast" ->
                replace_none_or_else(out, "downcast", arg.key, arg.key)
           [] OTHER -> Err(unknown_arg(arg.key))

TraitMethodMeta_parse(out, arg) ==
    LET ident == parse_ident(arg.key) IN
    IF ~ident.ok THEN ident
    ELSE CASE arg.key = "name" ->
                replace_none_or_else(out, "name", arg.val[1], arg.key)
           [] arg.key \in {"desc", "description"} ->
                replace_none_or_else(out, "description", arg.val[1], arg.key)
           [] arg.key = "deprecated" ->
                replace_none_or_else(out, "deprecated", arg.val, arg.key)
           [] arg.key \in {"ignore", "skip"} ->
                replace_none_or_else(out, "ignore", arg.key, arg.key)
           [] arg.key = "downcast" ->
                replace_none_or_else(out, "downcast", arg.key, arg.key)
           [] OTHER -> Err(unknown_arg(arg.key))

ArgumentMeta_parse(out, arg) ==
    LET ident == parse_ident(arg.key) IN
    IF ~ident.ok THEN ident
    ELSE CASE arg.key = "name" ->
                replace_none_or_else(out, "name", arg.val[1], arg.key)
           [] arg.key \in {"desc", "description"} ->
                replace_none_or_else(out, "description", arg.val[1], arg.key)
           [] arg.key = "default" ->
                replace_none_or_else(out, "default", arg.val, arg.key)
           [] arg.key \in {"ctx", "context", "Context"} ->
                replace_none_or_else(out, "context", arg.key, arg.key)
           [] arg.key \in {"exec", "executor"} ->
                replace_none_or_else(out, "executor", arg.key, arg.key)
           [] OTHER -> Err(unknown_arg(arg.key))

Parse(k, out, arg) ==
    CASE k = "InterfaceMeta" -> InterfaceMeta_parse(out, arg)
      [] k = "ImplementerMeta" -> ImplementerMeta_parse(out, arg)
      [] k = "TraitMethodMeta" -> TraitMethodMeta_parse(out, arg)
      [] k = "ArgumentMeta" -> ArgumentMeta_parse(out, arg)

(***************************************************************************)
(* Merging two sites. The try_merge_opt!, try_merge_hashset! and           *)
(* try_merge_hashmap! macros: a value set on both sides is a duplicate,    *)
(* otherwise the side that has it wins; sets and maps must be disjoint.    *)
(***************************************************************************)
try_merge_opt(a, b, field) ==
    IF is_some(a) /\ is_some(b) THEN Err(dup_arg(field))
    ELSE Ok(IF is_some(a) THEN a ELSE b)

try_merge_hashset(a, b, field) ==
    IF a \cap b # {} THEN Err(dup_arg(field)) ELSE Ok(a \cup b)

try_merge_hashmap(a, b, field) ==
    IF downcast_tys(a) \cap downcast_tys(b) # {} THEN Err(dup_arg(field))
    ELSE Ok(a \cup b)

\* The `?` of a struct literal: the first field (in written order) that fails.
RECURSIVE first_err(_)
first_err(rs) ==
    IF rs = <<>> THEN NoErr
    ELSE IF ~Head(rs).ok THEN Head(rs).err ELSE first_err(Tail(rs))

all_ok(rs) == \A i \in 1..Len(rs) : rs[i].ok

\* as_enum: try_merge_opt!(as_enum: self, another)
InterfaceMeta_merge_as_enum_lenient(self, another) ==
    Ok(IF is_some(self.as_enum) THEN self.as_enum ELSE another.as_enum)

InterfaceMeta_merge_as_enum(self, another) ==
    try_merge_opt(self.as_enum, another.as_enum, "as_enum")

\* implementers: try_merge_hashset!(implementers: self, another => span_joined)
InterfaceMeta_merge_implementers_union(self, another) ==
    Ok(self.implementers \cup another.implementers)

InterfaceMeta_merge_implementers(self, another) ==
    try_merge_hashset(self.implementers, another.implementers, "implementers")

\* is_internal: the later site decides.
InterfaceMeta_merge_is_internal_last_site(self, another) ==
    another.is_internal

\* is_internal: self.is_internal || another.is_internal
InterfaceMeta_merge_is_internal(self, another) ==
    self.is_internal \/ another.is_internal

InterfaceMeta_try_merge(self, another) ==
    LET name == try_merge_opt(self.name, another.name, "name")
        description ==
            try_merge_opt(self.description, another.description, "description")
        context == try_merge_opt(self.context, another.context, "context")
        scalar == try_merge_opt(self.scalar, another.scalar, "scalar")
        implementers == InterfaceMeta_merge_implementers(self, another)
        as_dyn == try_merge_opt(self.as_dyn, another.as_dyn, "as_dyn")
        as_enum == InterfaceMeta_merge_as_enum(self, another)
        asyncness ==
            try_merge_opt(self.asyncness, another.asyncness, "asyncness")
        external_downcasts ==
            try_merge_hashmap(self.external_downcasts,
                              another.external_downcasts, "external_downcasts")
        fields == <<name, description, context, scalar, implementers, as_dyn,
                    as_enum, asyncness, external_downcasts>>
    IN  IF ~all_ok(fields) THEN Err(first_err(fields))
        ELSE Ok([name |-> name.val,
                 description |-> description.val,
                 context |-> context.val,
                 scalar |-> scalar.val,
                 implementers |-> implementers.val,
                 as_dyn |-> as_dyn.val,
                 as_enum |-> as_enum.val,
                 asyncness |-> asyncness.val,
                 external_downcasts |-> external_downcasts.val,
                 is_internal |-> InterfaceMeta_merge_is_internal(self, another)])

ImplementerMeta_try_merge(self, another) ==
    LET scalar == try_merge_opt(self.scalar, another.scalar, "scalar")
        as_dyn == try_merge_opt(self.as_dyn, another.as_dyn, "as_dyn")
        asyncness ==
            try_merge_opt(self.asyncness, another.asyncness, "asyncness")
        fields == <<scalar, as_dyn, asyncness>>
    IN  IF ~all_ok(fields) THEN Err(first_err(fields))
        ELSE Ok([scalar |-> scalar.val, as_dyn |-> as_dyn.val,
                 asyncness |-> asyncness.val])

TraitMethodMeta_try_merge(self, another) ==
    LET name == try_merge_opt(self.name, another.name, "name")
        description ==
            try_merge_opt(self.description, another.description, "description")
        deprecated ==
            try_merge_opt(self.deprecated, another.deprecated, "deprecated")
        ignore == try_merge_opt(self.ignore, another.ignore, "ignore")
        downcast == try_merge_opt(self.downcast, another.downcast, "downcast")
        fields == <<name, description, deprecated, ignore, downcast>>
    IN  IF ~all_ok(fields) THEN Err(first_err(fields))
        ELSE Ok([name |-> name.val, description |-> description.val,
                 deprecated |-> deprecated.val, ignore |-> ignore.val,
                 downcast |-> downcast.val])

ArgumentMeta_try_merge(self, another) ==
    LET name == try_merge_opt(self.name, another.name, "name")
        description ==
            try_merge_opt(self.description, another.description, "description")
        default == try_merge_opt(self.default, another.default, "default")
        context == try_merge_opt(self.context, another.context, "context")
        executor == try_merge_opt(self.executor, another.executor, "executor")
        fields == <<name, description, default, context, executor>>
    IN  IF ~all_ok(fields) THEN Err(first_err(fields))
        ELSE Ok([name |-> name.val, description |-> description.val,
                 default |-> default.val, context |-> context.val,
                 executor |-> executor.val])

TryMerge(k, self, another) ==
    CASE k = "InterfaceMeta" -> InterfaceMeta_try_merge(self, another)
      [] k = "ImplementerMeta" -> ImplementerMeta_try_merge(self, another)
      [] k = "TraitMethodMeta" -> TraitMethodMeta_try_merge(self, another)
      [] k = "ArgumentMeta" -> ArgumentMeta_try_merge(self, another)

(***************************************************************************)
(* from_attrs after the fold: the composability checks, then the           *)
(* description and deprecation taken from the doc comment and the          *)
(* #[deprecated] attribute when no argument gave them                      *)
(***************************************************************************)
\* What get_doc_comment(attrs) can return: None, or the doc comment.
DocComments == {None, Some("doc comment")}

\* What get_deprecated(attrs) can return: None, or the attribute's optional
\* reason.
Deprecations == {None, Some(None), Some(Some("reason"))}

\* The attributes a declaration carries next to the parsed ones. Only
\* InterfaceMeta and TraitMethodMeta look for a doc comment, only
\* TraitMethodMeta for #[deprecated].
Attrs(k) ==
    [doc_comment : IF k \in {"InterfaceMeta", "TraitMethodMeta"}
                   THEN DocComments ELSE {None},
     deprecated : IF k = "TraitMethodMeta" THEN Deprecations ELSE {None}]

NoAttrs == [doc_comment |-> None, deprecated |-> None]

get_doc_comment(as) == as.doc_comment

get_deprecated(as) == as.deprecated

InterfaceMeta_check_lenient(meta) == Ok(meta)

InterfaceMeta_check(meta) ==
    IF is_some(meta.as_dyn) /\ is_some(meta.as_enum)
    THEN Err(not_composable("dyn"))
    ELSE Ok(meta)

InterfaceMeta_finish(meta, doc) ==
    LET checked == InterfaceMeta_check(meta) IN
    IF ~checked.ok THEN checked
    ELSE Ok([meta EXCEPT !.description = IF is_none(@) THEN doc ELSE @])

ImplementerMeta_finish(meta) == Ok(meta)

TraitMethodMeta_check_no_deprecated(meta) ==
    IF is_some(meta.ignore)
       /\ (is_some(meta.name) \/ is_some(meta.description)
           \/ is_some(meta.downcast))
    THEN Err(not_composable("ignore"))
    ELSE IF is_some(meta.downcast)
            /\ (is_some(meta.name) \/ is_some(meta.description)
                \/ is_some(meta.ignore))
    THEN Err(not_composable("downcast"))
    ELSE Ok(meta)

TraitMethodMeta_check(meta) ==
    IF is_some(meta.ignore)
       /\ (is_some(meta.name) \/ is_some(meta.description)
           \/ is_some(meta.deprecated) \/ is_some(meta.downcast))
    THEN Err(not_composable("ignore"))
    ELSE IF is_some(meta.downcast)
            /\ (is_some(meta.name) \/ is_some(meta.description)
                \/ is_some(meta.deprecated) \/ is_some(meta.ignore))
    THEN Err(not_composable("downcast"))
    ELSE Ok(meta)

\* The doc comment and #[deprecated], when there, win over the options.
TraitMethodMeta_finish_attrs_first(meta, doc, depr) ==
    LET checked == TraitMethodMeta_check(meta) IN
    IF ~checked.ok THEN checked
    ELSE Ok([meta EXCEPT !.description = IF is_some(doc) THEN doc ELSE @,
                         !.deprecated = IF is_some(depr) THEN depr ELSE @])

\* The composability checks run after the doc comment and #[deprecated] are
\* filled in.
TraitMethodMeta_finish_check_last(meta, doc, depr) ==
    TraitMethodMeta_check(
        [meta EXCEPT !.description = IF is_none(@) THEN doc ELSE @,
                     !.deprecated = IF is_none(@) THEN depr ELSE @])

TraitMethodMeta_finish(meta, doc, depr) ==
    LET checked == TraitMethodMeta_check(meta) IN
    IF ~checked.ok THEN checked
    ELSE Ok([meta EXCEPT !.description = IF is_none(@) THEN doc ELSE @,
                         !.deprecated = IF is_none(@) THEN depr ELSE @])

ArgumentMeta_check_no_default(meta) ==
    IF is_some(meta.context)
       /\ (is_some(meta.name) \/ is_some(meta.description)
           \/ is_some(meta.executor))
    THEN Err(not_composable("context"))
    ELSE IF is_some(meta.executor)
            /\ (is_some(meta.name) \/ is_some(meta.description)
                \/ is_some(meta.context))
    THEN Err(not_composable("executor"))
    ELSE Ok(meta)

ArgumentMeta_check(meta) ==
    IF is_some(meta.context)
       /\ (is_some(meta.name) \/ is_some(meta.description)
           \/ is_some(meta.default) \/ is_some(meta.executor))
    THEN Err(not_composable("context"))
    ELSE IF is_some(meta.executor)
            /\ (is_some(meta.name) \/ is_some(meta.description)
                \/ is_some(meta.default) \/ is_some(meta.context))
    THEN Err(not_composable("executor"))
    ELSE Ok(meta)

ArgumentMeta_finish(meta) == ArgumentMeta_check(meta)

Finish(k, meta, doc, depr) ==
    CASE k = "InterfaceMeta" -> InterfaceMeta_finish(meta, doc)
      [] k = "ImplementerMeta" -> ImplementerMeta_finish(meta)
      [] k = "TraitMethodMeta" -> TraitMethodMeta_finish(meta, doc, depr)
      [] k = "ArgumentMeta" -> ArgumentMeta_finish(meta)

(***************************************************************************)
(* History of what was written: the options an argument sets               *)
(***************************************************************************)
OptionIds ==
    {"name", "description", "context", "scalar", "as_dyn", "as_enum",
     "asyncness", "is_internal", "deprecated", "ignore", "downcast",
     "default", "executor"}
    \cup {"for " \o t : t \in Types} \cup {"on " \o t : t \in Types}

NothingWritten == [o \in OptionIds |-> 0]

\* The option each spelling of a key stands for, per parser.
InterfaceMeta_options(arg) ==
    CASE arg.key = "name" -> <<"name">>
      [] arg.key \in {"desc", "description"} -> <<"description">>
      [] arg.key \in {"ctx", "context", "Context"} -> <<"context">>
      [] arg.key \in {"scalar", "Scalar", "ScalarValue"} -> <<"scalar">>
      [] arg.key \in {"for", "implementers"} ->
            [i \in 1..Len(arg.tys) |-> "for " \o arg.tys[i]]
      [] arg.key = "dyn" -> <<"as_dyn">>
      [] arg.key = "enum" -> <<"as_enum">>
      [] arg.key = "async" -> <<"asyncness">>
      [] arg.key = "on" -> <<"on " \o arg.tys[1]>>
      [] arg.key = "internal" -> <<"is_internal">>
      [] OTHER -> <<>>

ImplementerMeta_options(arg) ==
    CASE arg.key \in {"scalar", "Scalar", "ScalarValue"} -> <<"scalar">>
      [] arg.key = "dyn" -> <<"as_dyn">>
      [] arg.key = "async" -> <<"asyncness">>
      [] OTHER -> <<>>

TraitMethodMeta_options(arg) ==
    CASE arg.key = "name" -> <<"name">>
      [] arg.key \in {"desc", "description"} -> <<"description">>
      [] arg.key = "deprecated" -> <<"deprecated">>
      [] arg.key \in {"ignore", "skip"} -> <<"ignore">>
      [] arg.key = "downcast" -> <<"downcast">>
      [] OTHER -> <<>>

ArgumentMeta_options(arg) ==
    CASE arg.key = "name" -> <<"name">>
      [] arg.key \in {"desc", "description"} -> <<"description">>
      [] arg.key = "default" -> <<"default">>
      [] arg.key \in {"ctx", "context", "Context"} -> <<"context">>
      [] arg.key \in {"exec", "executor"} -> <<"executor">>
      [] OTHER -> <<>>

Options(k, arg) ==
    CASE k = "InterfaceMeta" -> InterfaceMeta_options(arg)
      [] k = "ImplementerMeta" -> ImplementerMeta_options(arg)
      [] k = "TraitMethodMeta" -> TraitMethodMeta_options(arg)
      [] k = "ArgumentMeta" -> ArgumentMeta_options(arg)

RECURSIVE Record(_, _)
Record(bag, opts) ==
    IF opts = <<>> THEN bag
    ELSE Record([bag EXCEPT ![Head(opts)] = @ + 1], Tail(opts))

\* How often option o was written in site i, and in all sites together.
WrittenIn(i, o) == written[i][o]

RECURSIVE SumSites(_, _)
SumSites(i, o) == IF i = 0 THEN 0 ELSE written[i][o] + SumSites(i - 1, o)

Written(o) == SumSites(Len(written), o)

(***************************************************************************)
(* from_attrs, step by step                                                *)
(***************************************************************************)
\* No macro expansion runs while from_attrs is looked at.
\* No generics are worked on.
NoGenerics == [params |-> <<>>, predicates |-> <<>>]

ExtIdle ==
    /\ trait_generics = NoGenerics
    /\ cloned = NoGenerics
    /\ ext_calls = <<>>

GenIdle ==
    /\ stage = "idle"
    /\ trait = None
    /\ trait_meta = None
    /\ implementer_tys = <<>>
    /\ expansion = Pending
    /\ tokens = <<>>

Init ==
    /\ GenIdle
    /\ ExtIdle
    /\ kind \in Kinds
    /\ attrs = NoAttrs
    /\ pc = "fold"
    /\ prev = Default(kind)
    /\ output = Default(kind)
    /\ nargs = 0
    /\ written = <<>>
    /\ result = Pending

\* The iterator of filter_attrs yields the next attribute: parse starts with
\* Self::default().
BeginAttr ==
    /\ pc = "fold"
    /\ Len(written) < MaxSites
    /\ pc' = "parse"
    /\ output' = Default(kind)
    /\ written' = Append(written, NothingWritten)
    /\ UNCHANGED <<kind, attrs, prev, nargs, result, genvars, extvars>>

\* One iteration of the parse loop: the next argument of the attribute. An
\* error leaves parse, the fold and from_attrs at once (`?`).
ParseArg ==
    /\ pc = "parse"
    /\ nargs < MaxArgs
    /\ \E arg \in Args(kind) :
        LET r == Parse(kind, output, arg) IN
        /\ nargs' = nargs + 1
        /\ written' = [written EXCEPT ![Len(written)] =
                            Record(@, Options(kind, arg))]
        /\ IF r.ok
           THEN /\ output' = r.val
                /\ UNCHANGED <<pc, result>>
           ELSE /\ pc' = "done"
                /\ result' = Returned(r)
                /\ UNCHANGED output
    /\ UNCHANGED <<kind, attrs, prev, genvars, extvars>>

\* input.is_empty(): parse returns Ok(output), and the fold merges it into the
\* accumulator.
EndAttr ==
    /\ pc = "parse"
    /\ LET r == TryMerge(kind, prev, output) IN
        IF r.ok
        THEN /\ prev' = r.val
             /\ pc' = "fold"
             /\ UNCHANGED result
        ELSE /\ pc' = "done"
             /\ result' = Returned(r)
             /\ UNCHANGED prev
    /\ UNCHANGED <<kind, attrs, output, nargs, written, genvars, extvars>>

\* No attribute is left: the checks after the fold, the doc comment and
\* #[deprecated] read from the declaration's attributes, and the return.
Return ==
    /\ pc = "fold"
    /\ \E as \in Attrs(kind) :
        /\ attrs' = as
        /\ result' = Returned(Finish(kind, prev, get_doc_comment(as),
                                      get_deprecated(as)))
    /\ pc' = "done"
    /\ UNCHANGED <<kind, prev, output, nargs, written, genvars, extvars>>

Next == BeginAttr \/ ParseArg \/ EndAttr \/ Return

Spec == Init /\ [][Next]_vars

(***************************************************************************)
(* The macro expansion of one trait: the Definition is built from the      *)
(* trait declaration and its merged InterfaceMeta, and emitted.            *)
(*                                                                         *)
(* The trait declaration. Its methods come with their attributes already   *)
(* parsed: `attr` says whether TraitMethodMeta marked the method `ignore`  *)
(* or `downcast`, and each argument is classified as ArgumentMeta says.    *)
(***************************************************************************)
TraitIdent == "Node"

RegularArg ==
    [kind |-> "Regular", name |-> "first", ty |-> "i32",
     description |-> None, default |-> None]
SecondArg ==
    [kind |-> "Regular", name |-> "second", ty |-> "String",
     description |-> None, default |-> Some("dflt")]
ContextArg == [kind |-> "Context", ty |-> "Ctx"]
ExecutorArg == [kind |-> "Executor"]

TraitMethod(ident, asyncness, attr, arguments, ret) ==
    [item |-> "Method", ident |-> ident, asyncness |-> asyncness,
     attr |-> attr, name |-> None, arguments |-> arguments, ret |-> ret]

\* The items a trait declaration is made of.
TraitItems ==
    {TraitMethod("id", FALSE, "field", <<>>, "ID")}
    \cup {TraitMethod("title", a, "field",
                      <<RegularArg, ContextArg, ExecutorArg, SecondArg>>,
                      "String") :
            a \in BOOLEAN}
    \cup {[TraitMethod("label", FALSE, "field", <<>>, "String")
                EXCEPT !.name = Some("id")]}
    \cup {TraitMethod("hidden", FALSE, "ignore", <<>>, "bool")}
    \cup {TraitMethod("as_" \o t, FALSE, "downcast", <<>>, t) : t \in Types}
    \cup {TraitMethod("as_User_ctx", FALSE, "downcast", <<ContextArg>>, "User")}
    \cup {[item |-> "Type", ident |-> "Id"],
          [item |-> "Const", ident |-> "KIND"]}

idents_of(items) == {items[i].ident : i \in 1..Len(items)}

\* The merged InterfaceMeta a trait can carry, as from_attrs returns it
\* (never both as_dyn and as_enum).
TraitMetas ==
    {[InterfaceMeta_default EXCEPT
        !.as_dyn = a[1], !.as_enum = a[2], !.implementers = i,
        !.context = c, !.scalar = sc, !.asyncness = y,
        !.external_downcasts = e] :
        a \in {<<None, None>>, <<Some("NodeDyn"), None>>,
               <<None, Some("NodeEnum")>>},
        i \in SUBSET Types,
        c \in {None, Some("Ctx")},
        sc \in {None, Some("DefaultScalarValue")},
        y \in {None, Some("async")},
        e \in SUBSET {<<"User", "as_a">>}}

\* The sequences that list the elements of set S once each.
Orders(S) ==
    {o \in [1..Cardinality(S) -> S] :
        \A i, j \in 1..Cardinality(S) : i # j => o[i] # o[j]}

(***************************************************************************)
(* The builder of the Definition                                           *)
(***************************************************************************)
no_implementers == [kind |-> "no_implementers", arg |-> ""]
unresolved_implementer(ty) == [kind |-> "unresolved_implementer", arg |-> ty]

is_generic(scalar) == is_none(scalar)

\* One field per method that is marked neither `ignore` nor `downcast`; it
\* is async when the method is, or when the interface is marked async.
field_of(m, imeta) ==
    [name |-> IF is_some(m.name) THEN m.name[1] ELSE m.ident,
     ty |-> m.ret, trait_ty |-> TraitIdent,
     description |-> None, deprecated |-> None, method |-> m.ident,
     arguments |-> m.arguments,
     is_async |-> m.asyncness \/ is_some(imeta.asyncness)]

RECURSIVE fields_of(_, _)
fields_of(items, imeta) ==
    IF items = <<>> THEN <<>>
    ELSE IF Head(items).item = "Method" /\ Head(items).attr = "field"
    THEN <<field_of(Head(items), imeta)>> \o fields_of(Tail(items), imeta)
    ELSE fields_of(Tail(items), imeta)

has_context_arg(m) ==
    \E i \in 1..Len(m.arguments) : m.arguments[i].kind = "Context"

\* The methods marked `downcast` that return implementer type ty.
downcast_methods(items, ty) ==
    {i \in 1..Len(items) :
        /\ items[i].item = "Method"
        /\ items[i].attr = "downcast"
        /\ items[i].ret = ty}

external_downcast(imeta, ty) ==
    CHOOSE e \in imeta.external_downcasts : e[1] = ty

\* The other way round: a method marked `downcast` is preferred to the
\* registered external function.
downcast_of_method_first(items, imeta, ty) ==
    LET ms == downcast_methods(items, ty) IN
    IF Cardinality(ms) = 1
    THEN LET m == items[CHOOSE i \in ms : TRUE] IN
         Some([kind |-> "Method", name |-> m.ident,
               with_context |-> has_context_arg(m)])
    ELSE IF ty \in downcast_tys(imeta.external_downcasts)
    THEN Some([kind |-> "External", path |-> external_downcast(imeta, ty)[2]])
    ELSE None

\* Strategy selection, first match wins: the registered external function,
\* else the one method marked `downcast` for the type, else none.
downcast_of(items, imeta, ty) ==
    IF ty \in downcast_tys(imeta.external_downcasts)
    THEN Some([kind |-> "External", path |-> external_downcast(imeta, ty)[2]])
    ELSE LET ms == downcast_methods(items, ty) IN
         IF Cardinality(ms) = 1
         THEN LET m == items[CHOOSE i \in ms : TRUE] IN
              Some([kind |-> "Method", name |-> m.ident,
                    with_context |-> has_context_arg(m)])
         ELSE None

implementer_of(items, imeta, ty) ==
    LET downcast == downcast_of(items, imeta, ty) IN
    [ty |-> ty,
     downcast |-> downcast,
     context_ty |->
        IF is_some(downcast) /\ downcast[1].kind = "Method"
           /\ downcast[1].with_context
        THEN Some(ContextArg.ty) ELSE None,
     scalar |-> imeta.scalar,
     interface_ty |-> TraitIdent]

implementers_of(items, imeta, order) ==
    [i \in 1..Len(order) |-> implementer_of(items, imeta, order[i])]

(***************************************************************************)
(* The two representations: EnumType and TraitObjectType                   *)
(***************************************************************************)
arg_pat(arg) ==
    CASE arg.kind = "Regular" -> arg.name
      [] arg.kind = "Context" -> "ctx"
      [] arg.kind = "Executor" -> "executor"

\* The syn::Signature of a trait method: the receiver, then the typed
\* arguments.
sig_of(m) ==
    [ident |-> m.ident, asyncness |-> m.asyncness,
     inputs |-> <<[receiver |-> TRUE, pat |-> "self"]>>
                \o [i \in 1..Len(m.arguments) |->
                        [receiver |-> FALSE, pat |-> arg_pat(m.arguments[i])]]]

RECURSIVE items_of(_, _)
items_of(items, what) ==
    IF items = <<>> THEN <<>>
    ELSE IF Head(items).item = what
    THEN <<Head(items)>> \o items_of(Tail(items), what)
    ELSE items_of(Tail(items), what)

EnumType_new(tr, imeta, implers) ==
    [repr |-> "Enum",
     ident |-> IF is_some(imeta.as_enum) THEN imeta.as_enum[1]
               ELSE tr.ident \o "Value",
     variants |-> [i \in 1..Len(implers) |-> implers[i].ty],
     trait_ident |-> tr.ident,
     trait_types |->
        [i \in 1..Len(items_of(tr.items, "Type")) |->
            items_of(tr.items, "Type")[i].ident],
     trait_consts |->
        [i \in 1..Len(items_of(tr.items, "Const")) |->
            items_of(tr.items, "Const")[i].ident],
     trait_methods |->
        [i \in 1..Len(items_of(tr.items, "Method")) |->
            sig_of(items_of(tr.items, "Method")[i])]]

variant_ident_from_one(num) == "Impl" \o ToString(num + 1)

variant_ident(num) == "Impl" \o ToString(num)

EnumType_ty_tokens(e) == e.ident

EnumType_type_definition_tokens(e) ==
    [item |-> "enum",
     ident |-> e.ident,
     variants |-> [n \in 1..Len(e.variants) |->
                    [variant |-> variant_ident(n - 1), ty |-> e.variants[n]]]]

EnumType_impl_from_tokens(e) ==
    [n \in 1..Len(e.variants) |->
        [item |-> "impl From", from |-> e.variants[n], for |-> e.ident,
         variant |-> variant_ident(n - 1)]]

\* The patterns of all inputs, the receiver included.
RECURSIVE typed_pats_with_receiver(_)
typed_pats_with_receiver(inputs) ==
    IF inputs = <<>> THEN <<>>
    ELSE <<Head(inputs).pat>> \o typed_pats_with_receiver(Tail(inputs))

RECURSIVE typed_pats(_)
typed_pats(inputs) ==
    IF inputs = <<>> THEN <<>>
    ELSE IF Head(inputs).receiver THEN typed_pats(Tail(inputs))
    ELSE <<Head(inputs).pat>> \o typed_pats(Tail(inputs))

\* The last variant instead of the first.
last_variant(variants) == variants[Len(variants)]

first_variant(variants) == Head(variants)

\* `variants.first().unwrap()` panics on an enum without variants.
EnumType_impl_trait_tokens(e) ==
    IF e.variants = <<>> THEN [item |-> "panic", what |-> "unwrap on None"]
    ELSE LET var_ty == first_variant(e.variants) IN
    [item |-> "impl Trait",
     trait |-> e.trait_ident,
     for |-> e.ident,
     assoc_types |-> [i \in 1..Len(e.trait_types) |->
                        [ident |-> e.trait_types[i], of |-> var_ty]],
     assoc_consts |-> [i \in 1..Len(e.trait_consts) |->
                        [ident |-> e.trait_consts[i], of |-> var_ty]],
     methods |->
        [i \in 1..Len(e.trait_methods) |->
            [sig |-> e.trait_methods[i],
             match_arms |->
                [n \in 1..Len(e.variants) |->
                    [variant |-> variant_ident(n - 1),
                     ty |-> e.variants[n],
                     method |-> e.trait_methods[i].ident,
                     args |-> typed_pats(e.trait_methods[i].inputs),
                     and_await |-> e.trait_methods[i].asyncness]]]],
     async_trait |-> \E i \in 1..Len(e.trait_methods) :
                        e.trait_methods[i].asyncness]

EnumType_concrete_type_name_method_tokens(e) ==
    [check |-> "match self",
     match_arms |-> [n \in 1..Len(e.variants) |->
                        [variant |-> variant_ident(n - 1),
                         ty |-> e.variants[n]]]]

EnumType_resolve_into_type_method_tokens(e) ==
    [check |-> "match self",
     match_arms |-> [n \in 1..Len(e.variants) |->
                        [variant |-> variant_ident(n - 1), ready |-> FALSE]]]

EnumType_to_resolve_into_type_async_method_tokens(e) ==
    [check |-> "match self",
     match_arms |-> [n \in 1..Len(e.variants) |->
                        [variant |-> variant_ident(n - 1), ready |-> TRUE]]]

EnumType_to_tokens(e) ==
    <<EnumType_type_definition_tokens(e)>>
    \o EnumType_impl_from_tokens(e)
    \o <<EnumType_impl_trait_tokens(e)>>

unit_or(context) == IF is_some(context) THEN context[1] ELSE "()"

TraitObjectType_new(tr, imeta, context) ==
    [repr |-> "TraitObject",
     ident |-> imeta.as_dyn[1],
     trait_ident |-> tr.ident,
     context |-> context]

TraitObjectType_ty_tokens(o) ==
    [dyn |-> o.trait_ident, context_ty |-> unit_or(o.context),
     bounds |-> <<"'__obj", "Send", "Sync">>]

TraitObjectType_concrete_type_name_method_tokens(o) ==
    [check |-> "as_dyn_graphql_value", match_arms |-> <<>>]

TraitObjectType_resolve_into_type_method_tokens(o) ==
    [check |-> "as_dyn_graphql_value", match_arms |-> <<>>]

TraitObjectType_to_resolve_into_type_async_method_tokens(o) ==
    [check |-> "as_dyn_graphql_value_async", match_arms |-> <<>>]

\* The alias is always bound to the unit context.
TraitObjectType_to_tokens_unit_context(o) ==
    <<[item |-> "type alias", ident |-> o.ident, trait |-> o.trait_ident,
       context_ty |-> "()", bounds |-> <<"'a", "Send", "Sync">>]>>

TraitObjectType_to_tokens(o) ==
    <<[item |-> "type alias", ident |-> o.ident, trait |-> o.trait_ident,
       context_ty |-> unit_or(o.context), bounds |-> <<"'a", "Send", "Sync">>]>>

Type_is_trait_object(ty) == ty.repr = "TraitObject"

Type_ty_tokens(ty) ==
    IF ty.repr = "Enum" THEN EnumType_ty_tokens(ty)
    ELSE TraitObjectType_ty_tokens(ty)

Type_concrete_type_name_method_tokens(ty) ==
    IF ty.repr = "Enum" THEN EnumType_concrete_type_name_method_tokens(ty)
    ELSE TraitObjectType_concrete_type_name_method_tokens(ty)

Type_resolve_into_type_method_tokens(ty) ==
    IF ty.repr = "Enum" THEN EnumType_resolve_into_type_method_tokens(ty)
    ELSE TraitObjectType_resolve_into_type_method_tokens(ty)

Type_to_resolve_into_type_async_method_tokens(ty) ==
    IF ty.repr = "Enum"
    THEN EnumType_to_resolve_into_type_async_method_tokens(ty)
    ELSE TraitObjectType_to_resolve_into_type_async_method_tokens(ty)

Type_to_tokens(ty) ==
    IF ty.repr = "Enum" THEN EnumType_to_tokens(ty)
    ELSE TraitObjectType_to_tokens(ty)

(***************************************************************************)
(* Code emitted per argument, field and implementer                        *)
(***************************************************************************)
\* The same elements, last first.
RECURSIVE flatten_reversed(_)
flatten_reversed(opts) ==
    IF opts = <<>> THEN <<>> ELSE flatten_reversed(Tail(opts)) \o Head(opts)

RECURSIVE flatten(_)
flatten(opts) ==
    IF opts = <<>> THEN <<>> ELSE Head(opts) \o flatten(Tail(opts))

\* ScalarValueType::ty_tokens_default: the concrete type, or the generic
\* parameter.
scalar_ty_tokens_default(scalar) ==
    IF is_generic(scalar) THEN "__S" ELSE scalar[1]

MethodArgument_as_regular(arg) ==
    IF arg.kind = "Regular" THEN Some(arg) ELSE None

\* A Context argument is registered as a schema argument as well.
MethodArgument_meta_method_tokens_context_too(arg) ==
    IF arg.kind = "Executor" THEN None
    ELSE IF arg.kind = "Context"
    THEN Some([call |-> "arg", name |-> "context", ty |-> arg.ty,
               default |-> None, description |-> None])
    ELSE Some([call |-> IF is_some(arg.default) THEN "arg_with_default"
                        ELSE "arg",
               name |-> arg.name, ty |-> arg.ty,
               default |-> arg.default, description |-> arg.description])

MethodArgument_meta_method_tokens(arg) ==
    IF is_none(MethodArgument_as_regular(arg)) THEN None
    ELSE Some([call |-> IF is_some(arg.default) THEN "arg_with_default"
                        ELSE "arg",
               name |-> arg.name, ty |-> arg.ty,
               default |-> arg.default, description |-> arg.description])

MethodArgument_resolve_field_method_tokens(arg) ==
    CASE arg.kind = "Regular" ->
            [expr |-> "args.get", name |-> arg.name, ty |-> arg.ty]
      [] arg.kind = "Context" ->
            [expr |-> "FromContext::from(executor.context())"]
      [] arg.kind = "Executor" ->
            [expr |-> "&executor"]

InterfaceFieldDefinition_meta_method_tokens(field) ==
    [call |-> "field_convert",
     ty |-> field.ty,
     name |-> field.name,
     arguments |-> flatten([i \in 1..Len(field.arguments) |->
                    MethodArgument_meta_method_tokens(field.arguments[i])]),
     description |-> field.description,
     deprecated |-> field.deprecated]

\* A synchronous arm for every field, the async ones included.
InterfaceFieldDefinition_resolve_field_method_tokens_async_too(field) ==
    Some([arm |-> <<field.name>>,
          ty |-> field.ty,
          call |-> [of |-> field.trait_ty, method |-> field.method],
          arguments |-> <<[expr |-> "self"]>>
               \o [i \in 1..Len(field.arguments) |->
                    MethodArgument_resolve_field_method_tokens(
                       field.arguments[i])],
          resolving_code |-> "sync"])

InterfaceFieldDefinition_resolve_field_method_tokens(field) ==
    IF field.is_async THEN None
    ELSE Some([arm |-> <<field.name>>,
               ty |-> field.ty,
               call |-> [of |-> field.trait_ty, method |-> field.method],
               arguments |-> <<[expr |-> "self"]>>
                    \o [i \in 1..Len(field.arguments) |->
                         MethodArgument_resolve_field_method_tokens(
                            field.arguments[i])],
               resolving_code |-> "sync"])

InterfaceFieldDefinition_resolve_field_async_method_tokens(field) ==
    [arm |-> <<field.name>>,
     ty |-> field.ty,
     call |-> [of |-> field.trait_ty, method |-> field.method],
     arguments |-> <<[expr |-> "self"]>>
          \o [i \in 1..Len(field.arguments) |->
               MethodArgument_resolve_field_method_tokens(field.arguments[i])],
     ready |-> ~field.is_async,
     resolving_code |-> "async"]

\* The context is passed to every downcast function.
ImplementerDefinition_downcast_call_tokens_always_context(impler) ==
    IF is_none(impler.downcast) THEN None
    ELSE LET d == impler.downcast[1] IN
         Some([fn_path |-> IF d.kind = "Method"
                           THEN <<impler.interface_ty, d.name>>
                           ELSE <<d.path>>,
               args |-> <<"self", "FromContext::from(context)">>])

\* An external function is called with the instance alone.
ImplementerDefinition_downcast_call_tokens_external_bare(impler) ==
    IF is_none(impler.downcast) THEN None
    ELSE LET d == impler.downcast[1]
             ctx_arg == IF d.kind = "External" \/ ~d.with_context THEN <<>>
                        ELSE <<"FromContext::from(context)">> IN
         Some([fn_path |-> IF d.kind = "Method"
                           THEN <<impler.interface_ty, d.name>>
                           ELSE <<d.path>>,
               args |-> <<"self">> \o ctx_arg])

ImplementerDefinition_downcast_call_tokens(impler) ==
    IF is_none(impler.downcast) THEN None
    ELSE LET d == impler.downcast[1]
             ctx_arg == IF d.kind = "Method" /\ ~d.with_context THEN <<>>
                        ELSE <<"FromContext::from(context)">> IN
         Some([fn_path |-> IF d.kind = "Method"
                           THEN <<impler.interface_ty, d.name>>
                           ELSE <<d.path>>,
               args |-> <<"self">> \o ctx_arg])

ImplementerDefinition_concrete_type_name_method_tokens(impler) ==
    IF is_none(impler.downcast) THEN None
    ELSE Some([check |-> "downcast is_some",
               ty |-> impler.ty,
               scalar_ty |-> scalar_ty_tokens_default(impler.scalar),
               downcast |-> ImplementerDefinition_downcast_call_tokens(impler)])

ImplementerDefinition_resolve_into_type_method_tokens(impler) ==
    IF is_none(impler.downcast) THEN None
    ELSE Some([check |-> "type_name ==",
               ty |-> impler.ty,
               scalar_ty |-> scalar_ty_tokens_default(impler.scalar),
               downcast |-> ImplementerDefinition_downcast_call_tokens(impler),
               ready |-> FALSE])

ImplementerDefinition_resolve_into_type_async_method_tokens(impler) ==
    IF is_none(impler.downcast) THEN None
    ELSE Some([check |-> "type_name ==",
               ty |-> impler.ty,
               scalar_ty |-> scalar_ty_tokens_default(impler.scalar),
               downcast |-> ImplementerDefinition_downcast_call_tokens(impler),
               ready |-> TRUE])

(***************************************************************************)
(* Code emitted for the Definition                                         *)
(***************************************************************************)
EnumType_impl_generics(e, scalar) ==
    IF is_generic(scalar)
    THEN [params |-> <<scalar_ty_tokens_default(scalar)>>,
          predicates |-> <<[ty |-> scalar_ty_tokens_default(scalar),
                            bounds |-> <<"ScalarValue">>]>>]
    ELSE [params |-> <<>>, predicates |-> <<>>]

TraitObjectType_impl_generics(o, scalar) ==
    [params |-> <<"'__obj">>,
     predicates |-> IF is_generic(scalar)
                    THEN <<[ty |-> scalar_ty_tokens_default(scalar),
                            bounds |-> <<"ScalarValue">>]>>
                    ELSE <<>>]

Type_impl_generics(ty, scalar) ==
    IF ty.repr = "Enum" THEN EnumType_impl_generics(ty, scalar)
    ELSE TraitObjectType_impl_generics(ty, scalar)

\* The text `quote!(#ty).to_string()` renders a type as, in character codes.
type_text(ty) ==
    CASE ty = "User" -> <<85, 115, 101, 114>>
      [] ty = "Post" -> <<80, 111, 115, 116>>

\* Ordering of str: lexicographic by character code.
RECURSIVE str_lt(_, _)
str_lt(a, b) ==
    IF b = <<>> THEN FALSE
    ELSE IF a = <<>> THEN TRUE
    ELSE IF Head(a) # Head(b) THEN Head(a) < Head(b)
    ELSE str_lt(Tail(a), Tail(b))

RECURSIVE insert_by_text(_, _)
insert_by_text(sorted, ty) ==
    IF sorted = <<>> THEN <<ty>>
    ELSE IF str_lt(type_text(ty), type_text(Head(sorted)))
    THEN <<ty>> \o sorted
    ELSE <<Head(sorted)>> \o insert_by_text(Tail(sorted), ty)

\* The types are registered as the Definition lists them.
sort_left_as_listed(tys) == tys

RECURSIVE sort_unstable_by_text(_)
sort_unstable_by_text(tys) ==
    IF tys = <<>> THEN <<>>
    ELSE insert_by_text(sort_unstable_by_text(Tail(tys)), Head(tys))

\* An unknown field answered with the diagnostic of the async fields.
Definition_no_field_panic_tokens_async_text(def) ==
    [arm |-> <<"_">>,
     panic |-> "Tried to resolve async field {} on type {} with a sync resolver",
     args |-> <<"field", "Self::name(info).unwrap()">>]

Definition_no_field_panic_tokens(def) ==
    [arm |-> <<"_">>,
     panic |-> "Field {} not found on type {}",
     args |-> <<"field", "Self::name(info).unwrap()">>]

Definition_impl_graphql_type_tokens_fields_first(def) ==
    [item |-> "impl GraphQLType",
     for |-> Type_ty_tokens(def.ty),
     scalar_ty |-> scalar_ty_tokens_default(def.scalar),
     generics |-> Type_impl_generics(def.ty, def.scalar),
     name |-> def.name,
     meta |->
        [i \in 1..Len(def.fields) |->
            InterfaceFieldDefinition_meta_method_tokens(def.fields[i])]
        \o [i \in 1..Len(def.implementers) |->
            [call |-> "get_type",
             ty |-> sort_unstable_by_text(
                        [j \in 1..Len(def.implementers) |->
                            def.implementers[j].ty])[i]]]
        \o <<[call |-> "build_interface_type",
              ty |-> Type_ty_tokens(def.ty),
              description |-> def.description]>>]

Definition_impl_graphql_type_tokens(def) ==
    LET impler_tys == sort_unstable_by_text(
            [i \in 1..Len(def.implementers) |-> def.implementers[i].ty])
        fields_meta == [i \in 1..Len(def.fields) |->
            InterfaceFieldDefinition_meta_method_tokens(def.fields[i])] IN
    [item |-> "impl GraphQLType",
     for |-> Type_ty_tokens(def.ty),
     scalar_ty |-> scalar_ty_tokens_default(def.scalar),
     generics |-> Type_impl_generics(def.ty, def.scalar),
     name |-> def.name,
     meta |->
        [i \in 1..Len(impler_tys) |-> [call |-> "get_type", ty |-> impler_tys[i]]]
        \o fields_meta
        \o <<[call |-> "build_interface_type",
              ty |-> Type_ty_tokens(def.ty),
              description |-> def.description]>>]

RECURSIVE async_field_names(_)
async_field_names(fields) ==
    IF fields = <<>> THEN <<>>
    ELSE IF Head(fields).is_async
    THEN <<Head(fields).name>> \o async_field_names(Tail(fields))
    ELSE async_field_names(Tail(fields))

Definition_impl_graphql_value_tokens(def) ==
    LET fields_resolvers == flatten([i \in 1..Len(def.fields) |->
            InterfaceFieldDefinition_resolve_field_method_tokens(def.fields[i])])
        names == async_field_names(def.fields)
        async_fields_panic ==
            IF names = <<>> THEN None
            ELSE Some([arm |-> names,
                       panic |-> "Tried to resolve async field {} on type {} with a sync resolver",
                       args |-> <<"field", "Self::name(info).unwrap()">>])
        custom_downcast_checks == flatten([i \in 1..Len(def.implementers) |->
            ImplementerDefinition_concrete_type_name_method_tokens(
                def.implementers[i])])
        custom_downcasts == flatten([i \in 1..Len(def.implementers) |->
            ImplementerDefinition_resolve_into_type_method_tokens(
                def.implementers[i])]) IN
    [item |-> "impl GraphQLValue",
     for |-> Type_ty_tokens(def.ty),
     scalar_ty |-> scalar_ty_tokens_default(def.scalar),
     generics |-> Type_impl_generics(def.ty, def.scalar),
     context_ty |-> unit_or(def.context),
     resolve_field |-> fields_resolvers \o async_fields_panic
                       \o <<Definition_no_field_panic_tokens(def)>>,
     concrete_type_name |->
        custom_downcast_checks
        \o <<Type_concrete_type_name_method_tokens(def.ty)>>,
     resolve_into_type |->
        custom_downcasts \o <<Type_resolve_into_type_method_tokens(def.ty)>>]

\* The scalar is bounded by Send + Sync whether generic or not.
async_where_clause_scalar_always(predicates, scalar) ==
    predicates
    \o <<[ty |-> "Self", bounds |-> <<"Sync">>]>>
    \o <<[ty |-> scalar_ty_tokens_default(scalar),
          bounds |-> <<"Send", "Sync">>]>>

\* The where clause of the asynchronous implementation.
async_where_clause(predicates, scalar) ==
    predicates
    \o <<[ty |-> "Self", bounds |-> <<"Sync">>]>>
    \o (IF is_generic(scalar)
        THEN <<[ty |-> scalar_ty_tokens_default(scalar),
                bounds |-> <<"Send", "Sync">>]>>
        ELSE <<>>)

Definition_impl_graphql_value_async_tokens(def) ==
    LET generics == Type_impl_generics(def.ty, def.scalar)
        where_clause == async_where_clause(generics.predicates, def.scalar)
        custom_downcasts == flatten([i \in 1..Len(def.implementers) |->
            ImplementerDefinition_resolve_into_type_async_method_tokens(
                def.implementers[i])]) IN
    [item |-> "impl GraphQLValueAsync",
     for |-> Type_ty_tokens(def.ty),
     scalar_ty |-> scalar_ty_tokens_default(def.scalar),
     generics |-> [generics EXCEPT !.predicates = where_clause],
     context_ty |-> unit_or(def.context),
     resolve_field_async |->
        [i \in 1..Len(def.fields) |->
            InterfaceFieldDefinition_resolve_field_async_method_tokens(
                def.fields[i])]
        \o <<Definition_no_field_panic_tokens(def)>>,
     resolve_into_type_async |->
        custom_downcasts
        \o <<Type_to_resolve_into_type_async_method_tokens(def.ty)>>]

Definition_impl_graphql_interface_tokens(def) ==
    LET impler_tys == [i \in 1..Len(def.implementers) |->
                        def.implementers[i].ty] IN
    [item |-> "impl GraphQLInterface",
     for |-> Type_ty_tokens(def.ty),
     scalar_ty |-> scalar_ty_tokens_default(def.scalar),
     generics |-> Type_impl_generics(def.ty, def.scalar),
     all_implers_unique |-> IF Len(impler_tys) > 1 THEN Some(impler_tys)
                            ELSE None,
     marks |-> impler_tys]

Definition_impl_output_type_tokens(def) ==
    LET arguments_marks(field) ==
            flatten([i \in 1..Len(field.arguments) |->
                IF is_none(MethodArgument_as_regular(field.arguments[i]))
                THEN None
                ELSE Some([mark |-> "IsInputType",
                           ty |-> field.arguments[i].ty])])
        fields_marks == flatten([i \in 1..Len(def.fields) |->
            arguments_marks(def.fields[i])
            \o <<[mark |-> "IsOutputType", ty |-> def.fields[i].ty]>>]) IN
    [item |-> "impl IsOutputType",
     for |-> Type_ty_tokens(def.ty),
     scalar_ty |-> scalar_ty_tokens_default(def.scalar),
     generics |-> Type_impl_generics(def.ty, def.scalar),
     marks |-> fields_marks
               \o [i \in 1..Len(def.implementers) |->
                    [mark |-> "IsOutputType", ty |-> def.implementers[i].ty]]]

\* The asynchronous resolution is left out when no field is async.
Definition_to_tokens_async_on_demand(def) ==
    Type_to_tokens(def.ty)
    \o <<Definition_impl_graphql_interface_tokens(def),
         Definition_impl_output_type_tokens(def),
         Definition_impl_graphql_type_tokens(def),
         Definition_impl_graphql_value_tokens(def)>>
    \o (IF async_field_names(def.fields) = <<>> THEN <<>>
        ELSE <<Definition_impl_graphql_value_async_tokens(def)>>)

Definition_to_tokens(def) ==
    Type_to_tokens(def.ty)
    \o <<Definition_impl_graphql_interface_tokens(def),
         Definition_impl_output_type_tokens(def),
         Definition_impl_graphql_type_tokens(def),
         Definition_impl_graphql_value_tokens(def),
         Definition_impl_graphql_value_async_tokens(def)>>

(***************************************************************************)
(* Building the Definition of a trait                                      *)
(***************************************************************************)
\* The first implementer of the list that has no downcast strategy.
first_unresolved(impls) ==
    LET bad == {i \in 1..Len(impls) : is_none(impls[i].downcast)} IN
    IF bad = {} THEN None
    ELSE Some(impls[CHOOSE i \in bad : \A j \in bad : i <= j].ty)

\* A builder that accepts an implementer without a downcast strategy under
\* either representation.
build_unresolved_accepted(tr, imeta, order) ==
    LET impls == implementers_of(tr.items, imeta, order)
        is_trait_object == is_some(imeta.as_dyn) IN
    IF ~is_trait_object /\ impls = <<>> THEN Err(no_implementers)
    ELSE Ok([ty |-> IF is_trait_object
                    THEN TraitObjectType_new(tr, imeta, imeta.context)
                    ELSE EnumType_new(tr, imeta, impls),
             trait_ident |-> tr.ident,
             name |-> IF is_some(imeta.name) THEN imeta.name[1] ELSE tr.ident,
             description |-> imeta.description,
             context |-> imeta.context,
             scalar |-> imeta.scalar,
             fields |-> fields_of(tr.items, imeta),
             implementers |-> impls])

\* A builder that accepts an empty implementer list under the tagged union.
build_empty_enum_accepted(tr, imeta, order) ==
    LET impls == implementers_of(tr.items, imeta, order)
        is_trait_object == is_some(imeta.as_dyn) IN
    IF is_trait_object /\ is_some(first_unresolved(impls))
    THEN Err(unresolved_implementer(first_unresolved(impls)[1]))
    ELSE Ok([ty |-> IF is_trait_object
                    THEN TraitObjectType_new(tr, imeta, imeta.context)
                    ELSE EnumType_new(tr, imeta, impls),
             trait_ident |-> tr.ident,
             name |-> IF is_some(imeta.name) THEN imeta.name[1] ELSE tr.ident,
             description |-> imeta.description,
             context |-> imeta.context,
             scalar |-> imeta.scalar,
             fields |-> fields_of(tr.items, imeta),
             implementers |-> impls])

build(tr, imeta, order) ==
    LET impls == implementers_of(tr.items, imeta, order)
        is_trait_object == is_some(imeta.as_dyn) IN
    IF ~is_trait_object /\ impls = <<>> THEN Err(no_implementers)
    ELSE IF is_trait_object /\ is_some(first_unresolved(impls))
    THEN Err(unresolved_implementer(first_unresolved(impls)[1]))
    ELSE Ok([ty |-> IF is_trait_object
                    THEN TraitObjectType_new(tr, imeta, imeta.context)
                    ELSE EnumType_new(tr, imeta, impls),
             trait_ident |-> tr.ident,
             name |-> IF is_some(imeta.name) THEN imeta.name[1] ELSE tr.ident,
             description |-> imeta.description,
             context |-> imeta.context,
             scalar |-> imeta.scalar,
             fields |-> fields_of(tr.items, imeta),
             implementers |-> impls])

\* What the implementation sites of the declaration supply when it names
\* no implementers.
SuppliedImplementers == {<<>>, <<"Post", "User">>}

\* The implementer lists the builder can work on: the named implementers
\* (a HashSet, iterated in any order), or without them the supplied ones.
implementer_orders(imeta) ==
    IF imeta.implementers # {} THEN Orders(imeta.implementers)
    ELSE SuppliedImplementers

(***************************************************************************)
(* Expansion of the macro on a trait                                       *)
(***************************************************************************)
AttrIdle ==
    /\ kind = "InterfaceMeta"
    /\ attrs = NoAttrs
    /\ pc = "idle"
    /\ prev = Default(kind)
    /\ output = Default(kind)
    /\ nargs = 0
    /\ written = <<>>
    /\ result = Pending

InitGen ==
    /\ AttrIdle
    /\ ExtIdle
    /\ stage = "trait"
    /\ trait = Some([ident |-> TraitIdent, items |-> <<>>])
    /\ trait_meta = None
    /\ implementer_tys = <<>>
    /\ expansion = Pending
    /\ tokens = <<>>

\* The next item of the trait declaration is read.
TraitItem ==
    /\ stage = "trait"
    /\ Len(trait[1].items) < MaxItems
    /\ \E item \in TraitItems :
        /\ item.ident \notin idents_of(trait[1].items)
        /\ trait' = Some([trait[1] EXCEPT !.items = Append(@, item)])
    /\ UNCHANGED <<stage, trait_meta, implementer_tys, expansion, tokens>>
    /\ UNCHANGED <<attrvars, extvars>>

\* The Definition is built from the trait and its merged InterfaceMeta, and
\* on success emitted.
Expand ==
    /\ stage = "trait"
    /\ \E imeta \in TraitMetas :
        \E order \in implementer_orders(imeta) :
          \E r \in {build(trait[1], imeta, order)} :
            /\ trait_meta' = Some(imeta)
            /\ implementer_tys' = order
            /\ expansion' = Returned(r)
            /\ tokens' = IF r.ok THEN Definition_to_tokens(r.val) ELSE <<>>
            /\ stage' = IF r.ok THEN "expanded" ELSE "failed"
    /\ UNCHANGED trait
    /\ UNCHANGED <<attrvars, extvars>>

NextGen == TraitItem \/ Expand

SpecGen == InitGen /\ [][NextGen]_vars

(***************************************************************************)
(* Properties of from_attrs                                                *)
(***************************************************************************)
Done == pc = "done"
ReturnedOk == pc = "done" /\ result.status = "ok"
ReturnedErr == pc = "done" /\ result.status = "err"
Meta == result.meta[1]

\* The sites an option was written in.
SitesOf(o) == {i \in 1..Len(written) : written[i][o] > 0}

\* The options of InterfaceMeta that try_merge lets one site set only.
InterfaceMeta_once ==
    {"name", "description", "context", "scalar", "as_dyn", "as_enum",
     "asyncness"}

\* C1: an option of InterfaceMeta (name, description, context, scalar, dyn,
\* enum, async) set in two sites makes try_merge of the two records fail with
\* a duplicate-argument error, try_merge(a, b) fails exactly when
\* try_merge(b, a) fails, and from_attrs never returns a record then.
C1_DuplicateAcrossSitesFails ==
    kind = "InterfaceMeta" =>
        /\ InterfaceMeta_try_merge(prev, output).ok
            <=> InterfaceMeta_try_merge(output, prev).ok
        /\ \A f \in InterfaceMeta_once :
            is_some(prev[f]) /\ is_some(output[f]) =>
                /\ ~InterfaceMeta_try_merge(prev, output).ok
                /\ InterfaceMeta_try_merge(prev, output).err.kind = "dup_arg"
                /\ ~InterfaceMeta_try_merge(output, prev).ok
                /\ InterfaceMeta_try_merge(output, prev).err.kind = "dup_arg"
        /\ \A o \in InterfaceMeta_once :
            Done /\ Cardinality(SitesOf(o)) >= 2 => result.status = "err"

\* C1 witness: `enum` written in the first and in the second site, and the
\* merge of the second site returned the duplicate-argument error.
C1_Witness ==
    /\ kind = "InterfaceMeta"
    /\ ReturnedErr
    /\ SitesOf("as_enum") = {1, 2}
    /\ result.err = dup_arg("as_enum")

\* C2: from_attrs of InterfaceMeta never returns a record with both as_dyn
\* and as_enum set: it returns an error whenever both were written, in one
\* site or in two.
C2_DynEnumExclusive ==
    kind = "InterfaceMeta" =>
        /\ ReturnedOk => ~(is_some(Meta.as_dyn) /\ is_some(Meta.as_enum))
        /\ Done /\ Written("as_dyn") >= 1 /\ Written("as_enum") >= 1
            => result.status = "err"
        /\ Done /\ is_some(prev.as_dyn) /\ is_some(prev.as_enum)
                /\ result.err.kind \notin {"dup_arg", "unknown_arg", "syntax"}
            => result.err = not_composable("dyn")

\* C2 witness: `dyn` in the first site, `enum` in the second, and from_attrs
\* returned the composability error.
C2_Witness ==
    /\ kind = "InterfaceMeta"
    /\ ReturnedErr
    /\ SitesOf("as_dyn") = {1}
    /\ SitesOf("as_enum") = {2}
    /\ result.err = not_composable("dyn")

\* C5: an implementer type listed twice (in one list, in two lists of a
\* site, or in two sites) makes from_attrs fail; inside one site the failure
\* is the duplicate-argument error of that type; a returned record holds
\* exactly the listed types, each listed once.
C5_ImplementerListedTwiceFails ==
    kind = "InterfaceMeta" =>
        /\ \A t \in Types :
            Done /\ Written("for " \o t) >= 2 => result.status = "err"
        /\ (\E t \in Types :
                Len(written) > 0 /\ WrittenIn(Len(written), "for " \o t) >= 2)
            => /\ ReturnedErr
               /\ \E t \in Types :
                    /\ result.err = dup_arg(t)
                    /\ WrittenIn(Len(written), "for " \o t) >= 2
        /\ ReturnedOk =>
            /\ \A t \in Types : Written("for " \o t) <= 1
            /\ Meta.implementers = {t \in Types : Written("for " \o t) = 1}

\* C5 witness: User listed in the first site and again in the second, and
\* the merge returned the duplicate-argument error for the implementers.
C5_Witness ==
    /\ kind = "InterfaceMeta"
    /\ ReturnedErr
    /\ WrittenIn(1, "for User") = 1
    /\ Len(written) = 2
    /\ WrittenIn(2, "for User") = 1
    /\ result.err = dup_arg("implementers")

\* The fixed key set of each parser.
Keys(k) ==
    CASE k = "InterfaceMeta" ->
            {"name", "desc", "description", "ctx", "context", "Context",
             "scalar", "Scalar", "ScalarValue", "for", "implementers", "dyn",
             "enum", "async", "on", "internal"}
      [] k = "ImplementerMeta" ->
            {"scalar", "Scalar", "ScalarValue", "dyn", "async"}
      [] k = "TraitMethodMeta" ->
            {"name", "desc", "description", "deprecated", "ignore", "skip",
             "downcast"}
      [] k = "ArgumentMeta" ->
            {"name", "desc", "description", "default", "ctx", "context",
             "Context", "exec", "executor"}

\* C6 as claimed: whatever was parsed before, each of the four parsers
\* answers a key outside its key set with the unknown-argument error naming
\* that key.
C6_UnknownKeyAlwaysUnknownArg ==
    pc = "parse" =>
        \A arg \in Args(kind) :
            arg.key \notin Keys(kind) =>
                Parse(kind, output, arg) = Err(unknown_arg(arg.key))

\* C6, amended: InterfaceMeta and ImplementerMeta answer every key outside
\* their key set with the unknown-argument error naming it; TraitMethodMeta
\* and ArgumentMeta do so for every key that is not a Rust keyword, and
\* answer a keyword (for, dyn, enum, async) with the syntax error of the
\* identifier parse. No record is returned in either case.
C6_UnknownKeyFails ==
    /\ pc = "parse" =>
        \A arg \in Args(kind) :
            arg.key \notin Keys(kind) =>
                Parse(kind, output, arg) =
                    IF kind \in {"TraitMethodMeta", "ArgumentMeta"}
                       /\ arg.key \in RustKeywords
                    THEN Err(syntax_err(arg.key))
                    ELSE Err(unknown_arg(arg.key))
    /\ Done /\ result.err.kind \in {"unknown_arg", "syntax"} =>
        /\ result.status = "err"
        /\ is_none(result.meta)
        /\ result.err.arg \notin Keys(kind)

\* C6 witness: ImplementerMeta parsed a valid option and then met the key
\* `bogus`, and from_attrs returned the unknown-argument error naming it.
C6_Witness ==
    /\ kind = "ImplementerMeta"
    /\ ReturnedErr
    /\ nargs = 2
    /\ is_some(output.asyncness)
    /\ result.err = unknown_arg("bogus")

TraitMethodMeta_others(o) ==
    {"name", "description", "deprecated", "ignore", "downcast"} \ {o}

\* C7: TraitMethodMeta::from_attrs fails whenever `ignore` (or `skip`) was
\* written together with name, description, deprecated or downcast, and
\* whenever `downcast` was written together with name, description,
\* deprecated or ignore; a returned record with ignore or downcast set had
\* no other option written.
C7_IgnoreDowncastNotComposable ==
    kind = "TraitMethodMeta" =>
        \A f \in {"ignore", "downcast"} :
            /\ \A o \in TraitMethodMeta_others(f) :
                Done /\ Written(f) >= 1 /\ Written(o) >= 1
                    => result.status = "err"
            /\ Done /\ is_some(prev[f])
                    /\ (\E o \in TraitMethodMeta_others(f) : is_some(prev[o]))
                    /\ result.err.kind \notin {"dup_arg", "unknown_arg", "syntax"}
                => result.err.kind = "not_composable"
            /\ ReturnedOk /\ is_some(Meta[f]) =>
                \A o \in TraitMethodMeta_others(f) : Written(o) = 0

\* C7 witness: `ignore` and `deprecated` were written and from_attrs returned
\* the composability error of `ignore`.
C7_Witness ==
    /\ kind = "TraitMethodMeta"
    /\ ReturnedErr
    /\ Written("ignore") = 1
    /\ Written("deprecated") = 1
    /\ result.err = not_composable("ignore")

ArgumentMeta_others(o) ==
    {"name", "description", "default", "context", "executor"} \ {o}

\* C8: ArgumentMeta::from_attrs fails whenever `context` was written together
\* with name, description, default or executor, and whenever `executor` was
\* written together with name, description, default or context; a returned
\* record with context or executor set has every other option unset.
C8_ContextExecutorNotComposable ==
    kind = "ArgumentMeta" =>
        \A f \in {"context", "executor"} :
            /\ \A o \in ArgumentMeta_others(f) :
                Done /\ Written(f) >= 1 /\ Written(o) >= 1
                    => result.status = "err"
            /\ Done /\ is_some(prev[f])
                    /\ (\E o \in ArgumentMeta_others(f) : is_some(prev[o]))
                    /\ result.err.kind \notin {"dup_arg", "unknown_arg", "syntax"}
                => result.err.kind = "not_composable"
            /\ ReturnedOk /\ is_some(Meta[f]) =>
                \A o \in ArgumentMeta_others(f) : is_none(Meta[o])

\* C8 witness: `executor` in one site and `default` in the other, and
\* from_attrs returned the composability error of `executor`.
C8_Witness ==
    /\ kind = "ArgumentMeta"
    /\ ReturnedErr
    /\ Written("executor") = 1
    /\ Written("default") = 1
    /\ Len(written) = 2
    /\ result.err = not_composable("executor")

(***************************************************************************)
(* Properties of the expansion                                             *)
(***************************************************************************)
Expanded == stage = "expanded"
Failed == stage = "failed"
Def == expansion.meta[1]
IMeta == trait_meta[1]
Items == trait[1].items

\* The item of the emitted code that is named `item`.
Artifact(item) ==
    tokens[CHOOSE i \in 1..Len(tokens) : tokens[i].item = item]

\* C3: for the tagged-union representation built from the implementer list
\* I, the emitted enum has exactly |I| variants, and for every n the n-th
\* variant (counted from 0) is named Impl{n} and wraps I[n]; for User, Post
\* these are Impl0(User), Impl1(Post).
C3_EnumVariantsInOrder ==
    (Expanded /\ Def.ty.repr = "Enum") =>
        LET I == implementer_tys
            enum == tokens[1] IN
        /\ enum.item = "enum"
        /\ I = [n \in 1..Len(Def.implementers) |-> Def.implementers[n].ty]
        /\ Len(enum.variants) = Len(I)
        /\ \A n \in 0..(Len(I) - 1) :
            enum.variants[n + 1] =
                [variant |-> "Impl" \o ToString(n), ty |-> I[n + 1]]
        /\ I = <<"User", "Post">> =>
            enum.variants = <<[variant |-> "Impl0", ty |-> "User"],
                              [variant |-> "Impl1", ty |-> "Post"]>>

\* C3 happens: an enum was emitted for the implementers User, Post.
C3_Witness ==
    /\ Expanded
    /\ Def.ty.repr = "Enum"
    /\ implementer_tys = <<"User", "Post">>
    /\ Len(tokens[1].variants) = 2
    /\ tokens[1].variants[2].ty = "Post"

\* An implementer type without a registered external downcast function and
\* without a method marked `downcast` that returns it.
NoStrategyFor(ty) ==
    /\ ty \notin downcast_tys(IMeta.external_downcasts)
    /\ downcast_methods(Items, ty) = {}

\* C4: an implementer with no registered external downcast function and no
\* method marked `downcast` makes the build fail under the dynamic-dispatch
\* representation, and lets it succeed under the tagged union, where the
\* implementer carries no downcast strategy and gets no custom check.
C4_NoStrategyFailsOnlyUnderDyn ==
    ((Expanded \/ Failed)
        /\ \E i \in 1..Len(implementer_tys) : NoStrategyFor(implementer_tys[i]))
    => IF is_some(IMeta.as_dyn)
       THEN /\ Failed
            /\ expansion.err.kind = "unresolved_implementer"
            /\ \E i \in 1..Len(implementer_tys) :
                expansion.err.arg = implementer_tys[i]
            /\ tokens = <<>>
       ELSE /\ Expanded
            /\ \A i \in 1..Len(implementer_tys) :
                NoStrategyFor(implementer_tys[i]) =>
                    /\ Def.implementers[i].ty = implementer_tys[i]
                    /\ Def.implementers[i].downcast = None
                    /\ \A k \in 1..Len(Artifact("impl GraphQLValue").concrete_type_name) :
                        LET c == Artifact("impl GraphQLValue").concrete_type_name[k] IN
                        c.check = "downcast is_some" => c.ty # implementer_tys[i]

\* C4 happens: under dyn, User has an external downcast function and Post
\* has no strategy, and the build failed for Post.
C4_Witness ==
    /\ Failed
    /\ is_some(IMeta.as_dyn)
    /\ implementer_tys = <<"User", "Post">>
    /\ ~NoStrategyFor("User")
    /\ NoStrategyFor("Post")
    /\ expansion.err = unresolved_implementer("Post")

\* C9: the downcast strategy of an implementer is External{path} whenever
\* an external downcast function is registered for its type, also when the
\* trait has a method marked `downcast` that returns the type; only without
\* a registered function it is Method{name, with_context} of such a method;
\* one strategy or none is stored per implementer.
C9_ExternalDowncastFirst ==
    Expanded =>
        \A i \in 1..Len(Def.implementers) :
            LET impler == Def.implementers[i] IN
            /\ Len(impler.downcast) <= 1
            /\ impler.ty \in downcast_tys(IMeta.external_downcasts) =>
                \E e \in IMeta.external_downcasts :
                    /\ e[1] = impler.ty
                    /\ impler.downcast =
                        Some([kind |-> "External", path |-> e[2]])
            /\ impler.ty \notin downcast_tys(IMeta.external_downcasts) =>
                \/ is_none(impler.downcast)
                \/ \E j \in downcast_methods(Items, impler.ty) :
                    impler.downcast =
                        Some([kind |-> "Method", name |-> Items[j].ident,
                              with_context |-> has_context_arg(Items[j])])

\* C9 happens: User has both a registered external downcast function and a
\* method marked `downcast`, and the strategy stored is the external one.
C9_Witness ==
    /\ Expanded
    /\ "User" \in downcast_tys(IMeta.external_downcasts)
    /\ Cardinality(downcast_methods(Items, "User")) = 1
    /\ \E i \in 1..Len(Def.implementers) :
        /\ Def.implementers[i].ty = "User"
        /\ Def.implementers[i].downcast[1].kind = "External"

\* The calls the emitted `meta` function makes, in their order.
MetaCalls == Artifact("impl GraphQLType").meta
Registrations == {i \in 1..Len(MetaCalls) : MetaCalls[i].call = "get_type"}
FieldsMeta == SelectSeq(MetaCalls, LAMBDA c : c.call = "field_convert")
DeclaredFields ==
    SelectSeq(Items, LAMBDA m : m.item = "Method" /\ m.attr = "field")

\* C10: the emitted type metadata lists the fields in exactly the order of
\* Definition.fields, which is the order of declaration; every implementer
\* type of the Definition is registered exactly once; and every registration
\* comes before the metadata of the first field.
C10_RegistrationsBeforeFieldsInOrder ==
    Expanded =>
        /\ Len(FieldsMeta) = Len(Def.fields)
        /\ Len(DeclaredFields) = Len(Def.fields)
        /\ \A k \in 1..Len(Def.fields) :
            /\ FieldsMeta[k].name = Def.fields[k].name
            /\ FieldsMeta[k].ty = Def.fields[k].ty
            /\ Def.fields[k].method = DeclaredFields[k].ident
        /\ \A n \in 1..Len(Def.implementers) :
            Cardinality({i \in Registrations :
                MetaCalls[i].ty = Def.implementers[n].ty}) = 1
        /\ Cardinality(Registrations) = Len(Def.implementers)
        /\ \A i \in Registrations :
            \A j \in 1..Len(MetaCalls) :
                MetaCalls[j].call = "field_convert" => i < j

\* C10 happens: metadata was emitted for two fields, `title` declared before
\* `id`, and two implementers.
C10_Witness ==
    /\ Expanded
    /\ Len(Def.fields) = 2
    /\ Def.fields[1].name = "title"
    /\ Len(Def.implementers) = 2
    /\ Len(FieldsMeta) = 2
    /\ Cardinality(Registrations) = 2

(***************************************************************************)
(* The emitted code, run                                                   *)
(***************************************************************************)
\* Field names a query can ask the interface for.
FieldNames == {"id", "title", "label", "hidden", "nope"}

artifact_of(toks, item) ==
    toks[CHOOSE i \in 1..Len(toks) : toks[i].item = item]

\* `match field { .. }`: the first arm whose pattern matches is taken.
arm_matches(a, field) ==
    \E i \in 1..Len(a.arm) : a.arm[i] = "_" \/ a.arm[i] = field

match_arm(arms, field) ==
    arms[CHOOSE i \in 1..Len(arms) :
            /\ arm_matches(arms[i], field)
            /\ \A j \in 1..(i - 1) : ~arm_matches(arms[j], field)]

\* The value an argument of panic! has when the arm runs: `field` is the
\* name asked for, the other is what the emitted GraphQLType::name returns.
panic_arg(toks, expr, field) ==
    IF expr = "field" THEN field
    ELSE artifact_of(toks, "impl GraphQLType").name

run_arm(toks, a, field) ==
    IF "panic" \in DOMAIN a
    THEN [outcome |-> "panic", message |-> a.panic,
          args |-> [i \in 1..Len(a.args) |-> panic_arg(toks, a.args[i], field)]]
    ELSE IF "ready" \in DOMAIN a
    THEN [outcome |-> "future", call |-> a.call, arguments |-> a.arguments,
          ready |-> a.ready]
    ELSE [outcome |-> "value", call |-> a.call, arguments |-> a.arguments]

\* The emitted resolve_field and resolve_field_async, called for `field`.
resolve_field(toks, field) ==
    run_arm(toks,
            match_arm(artifact_of(toks, "impl GraphQLValue").resolve_field,
                      field),
            field)

resolve_field_async(toks, field) ==
    run_arm(toks,
            match_arm(artifact_of(toks, "impl GraphQLValueAsync")
                        .resolve_field_async, field),
            field)

field_names(def) == {def.fields[i].name : i \in 1..Len(def.fields)}

no_field_panic(field, name) ==
    [outcome |-> "panic", message |-> "Field {} not found on type {}",
     args |-> <<field, name>>]

\* C11: in the emitted resolve_field a field name that matches no field of
\* the Definition reaches the panic `Field .. not found on type ..` that
\* names the field and the GraphQL type name of the interface, never a
\* result; the emitted resolve_field_async does the same.
C11_UnknownFieldPanics ==
    Expanded =>
        \A f \in FieldNames \ field_names(Def) :
            /\ resolve_field(tokens, f) = no_field_panic(f, Def.name)
            /\ resolve_field_async(tokens, f) = no_field_panic(f, Def.name)

\* C11 happens: `id` is a field, `hidden` is a method that is ignored, and
\* asking for `hidden` or `nope` panics.
C11_Witness ==
    /\ Expanded
    /\ field_names(Def) = {"id"}
    /\ Len(Items) = 2
    /\ Items[2].ident = "hidden"
    /\ resolve_field(tokens, "hidden").outcome = "panic"
    /\ resolve_field_async(tokens, "nope").outcome = "panic"

async_field_panic(field, name) ==
    [outcome |-> "panic",
     message |-> "Tried to resolve async field {} on type {} with a sync resolver",
     args |-> <<field, name>>]

\* The methods of the trait the emitted resolve_field can call.
sync_called_methods(toks) ==
    LET arms == artifact_of(toks, "impl GraphQLValue").resolve_field IN
    {arms[i].call.method : i \in {j \in 1..Len(arms) : "call" \in DOMAIN arms[j]}}

\* C12: every field with is_async = true is rejected by the emitted
\* synchronous resolve_field with the diagnostic `Tried to resolve async
\* field .. with a sync resolver`, which is not the diagnostic of an unknown
\* field, and the synchronous path never calls the method of that field.
C12_AsyncFieldRejectedBySync ==
    Expanded =>
        \A k \in 1..Len(Def.fields) :
            Def.fields[k].is_async =>
                /\ resolve_field(tokens, Def.fields[k].name)
                    = async_field_panic(Def.fields[k].name, Def.name)
                /\ resolve_field(tokens, Def.fields[k].name)
                    # no_field_panic(Def.fields[k].name, Def.name)
                /\ resolve_field(tokens, Def.fields[k].name).message
                    # no_field_panic(Def.fields[k].name, Def.name).message
                /\ Def.fields[k].method \notin sync_called_methods(tokens)

\* C12 happens: `title` is async by its method, `id` is not, and the
\* synchronous resolver rejects `title` while it calls `id`.
C12_Witness ==
    /\ Expanded
    /\ Len(Def.fields) = 2
    /\ Def.fields[1].name = "title" /\ Def.fields[1].is_async
    /\ Def.fields[2].name = "id" /\ ~Def.fields[2].is_async
    /\ resolve_field(tokens, "title").outcome = "panic"
    /\ resolve_field(tokens, "id").outcome = "value"

\* What the emitted call of a field's method is: the method, called on self
\* with one value per argument.
method_call(field) ==
    [call |-> [of |-> field.trait_ty, method |-> field.method],
     arguments |-> <<[expr |-> "self"]>>
        \o [i \in 1..Len(field.arguments) |->
             MethodArgument_resolve_field_method_tokens(field.arguments[i])]]

\* C13: asynchronous field resolution yields a suspended computation for
\* every field of the Definition: for a field whose method is synchronous it
\* is the method called with the same arguments, wrapped in an immediately
\* ready future, and for a field whose method is async it is the method's own
\* future, not wrapped.
C13_AsyncResolutionAlwaysSuspended ==
    Expanded =>
        \A k \in 1..Len(Def.fields) :
            LET field == Def.fields[k]
                method == DeclaredFields[k]
                r == resolve_field_async(tokens, field.name) IN
            /\ r.outcome = "future"
            /\ r.call = method_call(field).call
            /\ r.arguments = method_call(field).arguments
            /\ method.ident = field.method
            /\ ~method.asyncness => r.ready
            /\ method.asyncness => ~r.ready

\* C13, as the emitter decides it: the call is wrapped in a ready future
\* exactly when the field's is_async is false (of two fields with one name
\* the first is the one resolved).
C13_WrappedUnlessIsAsync ==
    Expanded =>
        \A k \in {i \in 1..Len(Def.fields) :
                    \A j \in 1..(i - 1) :
                        Def.fields[j].name # Def.fields[i].name} :
            LET field == Def.fields[k]
                r == resolve_field_async(tokens, field.name) IN
            /\ r.outcome = "future"
            /\ r.call = method_call(field).call
            /\ r.arguments = method_call(field).arguments
            /\ r.ready = ~field.is_async
            /\ ~field.is_async =>
                /\ resolve_field(tokens, field.name).outcome = "value"
                /\ resolve_field(tokens, field.name).call = r.call
                /\ resolve_field(tokens, field.name).arguments = r.arguments

\* C13 fails here: the interface is marked async, the method of field `id`
\* is synchronous, and its value is used as the future without being wrapped.
C13_Witness ==
    /\ Expanded
    /\ is_some(IMeta.asyncness)
    /\ Len(Def.fields) = 1
    /\ Def.fields[1].name = "id"
    /\ ~DeclaredFields[1].asyncness
    /\ Def.fields[1].is_async
    /\ ~resolve_field_async(tokens, "id").ready

\* Type names resolve_into_type can be asked to narrow to.
TypeNames == Types \cup {"Other"}

\* The statements of an emitted narrowing function, run in their order: a
\* custom check is `if <its condition> { return .. }` and returns when its
\* type is one of `hits`, the types whose condition is true; the structural
\* check is the closing expression. What returned is the result.
RECURSIVE run_narrowing(_, _)
run_narrowing(stmts, hits) ==
    IF stmts = <<>> THEN [by |-> "nothing"]
    ELSE IF "downcast" \in DOMAIN Head(stmts)
    THEN IF Head(stmts).ty \in hits
         THEN [by |-> "custom", ty |-> Head(stmts).ty,
               downcast |-> Head(stmts).downcast]
         ELSE run_narrowing(Tail(stmts), hits)
    ELSE [by |-> "structural", check |-> Head(stmts).check]

\* The emitted concrete_type_name when exactly the downcasts to the types
\* of `some` return Some.
concrete_type_name(toks, some) ==
    run_narrowing(artifact_of(toks, "impl GraphQLValue").concrete_type_name,
                  some)

\* The emitted resolve_into_type(_async), asked for type_name.
resolve_into_type(toks, type_name) ==
    run_narrowing(artifact_of(toks, "impl GraphQLValue").resolve_into_type,
                  {type_name})

resolve_into_type_async(toks, type_name) ==
    run_narrowing(artifact_of(toks, "impl GraphQLValueAsync")
                    .resolve_into_type_async, {type_name})

\* The implementers that have a downcast strategy, in list order.
with_strategy(def) ==
    SelectSeq(def.implementers, LAMBDA impler : is_some(impler.downcast))

\* What narrowing has to return when the checks of `hits` match.
first_match(def, hits, structural) ==
    LET ws == with_strategy(def)
        matching == {i \in 1..Len(ws) : ws[i].ty \in hits} IN
    IF matching = {} THEN [by |-> "structural", check |-> structural]
    ELSE LET first == CHOOSE i \in matching : \A j \in matching : i <= j IN
         [by |-> "custom", ty |-> ws[first].ty,
          downcast |-> ImplementerDefinition_downcast_call_tokens(ws[first])]

\* C14: concrete_type_name, resolve_into_type and resolve_into_type_async
\* run the custom checks of the implementers that have a downcast strategy
\* first, in implementer-list order, return at the first check that matches,
\* and fall back to the structural check of the representation (the match
\* over the enum, or the forward to the trait object) only when none matches.
C14_NarrowingCustomChecksFirstInOrder ==
    Expanded =>
        LET enum == Def.ty.repr = "Enum" IN
        /\ \A some \in SUBSET Types :
            concrete_type_name(tokens, some) =
                first_match(Def, some,
                    IF enum THEN "match self" ELSE "as_dyn_graphql_value")
        /\ \A type_name \in TypeNames :
            /\ resolve_into_type(tokens, type_name) =
                first_match(Def, {type_name},
                    IF enum THEN "match self" ELSE "as_dyn_graphql_value")
            /\ resolve_into_type_async(tokens, type_name) =
                first_match(Def, {type_name},
                    IF enum THEN "match self"
                    ELSE "as_dyn_graphql_value_async")

\* C14 happens: Post and User, in this order, both have a strategy; when
\* both downcasts return Some, Post is the answer; when none does, the
\* structural check is.
C14_Witness ==
    /\ Expanded
    /\ implementer_tys = <<"Post", "User">>
    /\ Len(with_strategy(Def)) = 2
    /\ concrete_type_name(tokens, {"User", "Post"}).by = "custom"
    /\ concrete_type_name(tokens, {"User", "Post"}).ty = "Post"
    /\ concrete_type_name(tokens, {"User"}).ty = "User"
    /\ concrete_type_name(tokens, {}).by = "structural"

\* The methods of the trait declaration, in declaration order.
DeclaredMethods == SelectSeq(Items, LAMBDA m : m.item = "Method")

C16_EnumNeverEmpty ==
    /\ (Expanded /\ Def.ty.repr = "Enum") =>
        /\ Len(Def.ty.variants) >= 1
        /\ Len(Def.implementers) >= 1
        /\ \A i \in 1..Len(tokens) : tokens[i].item # "panic"
        /\ \E i \in 1..Len(tokens) : tokens[i].item = "impl Trait"
    /\ ((Expanded \/ Failed) /\ is_none(IMeta.as_dyn) /\ implementer_tys = <<>>)
        => /\ Failed
           /\ expansion.err = no_implementers
           /\ tokens = <<>>

\* C16 happens: no implementers are named and none are supplied, the
\* representation is the tagged union, and the build was refused.
C16_Witness ==
    /\ Failed
    /\ is_some(IMeta.as_enum)
    /\ IMeta.implementers = {}
    /\ implementer_tys = <<>>
    /\ expansion.err = no_implementers

DeclaredTypes == SelectSeq(Items, LAMBDA i : i.item = "Type")
DeclaredConsts == SelectSeq(Items, LAMBDA i : i.item = "Const")

\* C17: in the tagged-union representation every associated type and every
\* associated constant of the trait is forwarded on the enum from the
\* implementation of the first variant (index 0) and of no other variant,
\* however many variants there are.
C17_AssociatedItemsFromFirstVariant ==
    (Expanded /\ Def.ty.repr = "Enum") =>
        LET impl == Artifact("impl Trait") IN
        /\ impl.assoc_types =
            [i \in 1..Len(DeclaredTypes) |->
                [ident |-> DeclaredTypes[i].ident, of |-> implementer_tys[1]]]
        /\ impl.assoc_consts =
            [i \in 1..Len(DeclaredConsts) |->
                [ident |-> DeclaredConsts[i].ident, of |-> implementer_tys[1]]]
        /\ \A n \in 2..Len(implementer_tys) :
            /\ \A i \in 1..Len(impl.assoc_types) :
                impl.assoc_types[i].of # implementer_tys[n]
            /\ \A i \in 1..Len(impl.assoc_consts) :
                impl.assoc_consts[i].of # implementer_tys[n]

\* C17 happens: the trait has an associated type and an associated constant,
\* the enum has the variants Post, User, and both are forwarded from Post.
C17_Witness ==
    /\ Expanded
    /\ Def.ty.repr = "Enum"
    /\ implementer_tys = <<"Post", "User">>
    /\ Len(DeclaredTypes) = 1
    /\ Len(DeclaredConsts) = 1
    /\ Artifact("impl Trait").assoc_types[1].of = "Post"
    /\ Artifact("impl Trait").assoc_consts[1].of = "Post"

\* The items the value representation is emitted as.
representation_items(def) ==
    IF def.ty.repr = "Enum"
    THEN <<"enum">> \o [n \in 1..Len(def.implementers) |-> "impl From"]
         \o <<"impl Trait">>
    ELSE <<"type alias">>

\* C18: emitting a Definition produces the same six artifacts, together and
\* in the same order: value representation, interface marker, output-type
\* marker, type metadata, synchronous resolution, asynchronous resolution;
\* for both representations and any fields and implementers, and never a
\* subset of them.
C18_SixArtifactsInOrder ==
    /\ Expanded =>
        /\ [i \in 1..Len(tokens) |-> tokens[i].item] =
            representation_items(Def)
            \o <<"impl GraphQLInterface", "impl IsOutputType",
                 "impl GraphQLType", "impl GraphQLValue",
                 "impl GraphQLValueAsync">>
        /\ \A i \in 1..Len(tokens) :
            tokens[i].item \notin {"enum", "impl From", "impl Trait",
                                   "type alias"}
                => tokens[i].for = Type_ty_tokens(Def.ty)
    /\ ~Expanded => tokens = <<>>

\* C18 happens: a trait object without fields and an enum with two fields
\* are emitted alike; here the trait object, as six items.
C18_Witness ==
    /\ Expanded
    /\ Def.ty.repr = "TraitObject"
    /\ Def.fields = <<>>
    /\ Len(Def.implementers) = 1
    /\ Len(tokens) = 6
    /\ tokens[6].item = "impl GraphQLValueAsync"

\* Whether the where clause of an emitted implementation bounds `ty` by every
\* one of `bounds`.
bounded_by(artifact, ty, bounds) ==
    \E i \in 1..Len(artifact.generics.predicates) :
        LET p == artifact.generics.predicates[i] IN
        /\ p.ty = ty
        /\ \A b \in bounds : \E j \in 1..Len(p.bounds) : p.bounds[j] = b

C19_WitnessConcrete ==
    /\ Expanded
    /\ IMeta.scalar # None
    /\ Artifact("impl GraphQLValueAsync").generics.predicates =
        <<[ty |-> "Self", bounds |-> <<"Sync">>]>>

\* The downcast calls the emitted narrowing functions make for the type
\* `ty`, each as the function called and the arguments passed.
downcast_calls(toks, ty) ==
    LET value == artifact_of(toks, "impl GraphQLValue")
        async == artifact_of(toks, "impl GraphQLValueAsync")
        calls_in(stmts) ==
            {stmts[i].downcast[1] : i \in
                {j \in 1..Len(stmts) :
                    /\ "downcast" \in DOMAIN stmts[j]
                    /\ stmts[j].ty = ty}} IN
    <<calls_in(value.concrete_type_name),
      calls_in(value.resolve_into_type),
      calls_in(async.resolve_into_type_async)>>

\* C20: the downcast call built for an implementer with strategy
\* Method{name, with_context} is invoked with the polymorphic instance and,
\* in addition, with the current resolution context if and only if
\* with_context is true; an implementer with no strategy produces no
\* downcast call at all.
C20_DowncastCallArguments ==
    Expanded =>
        \A i \in 1..Len(Def.implementers) :
            LET impler == Def.implementers[i]
                calls == downcast_calls(tokens, impler.ty) IN
            /\ (is_some(impler.downcast) /\ impler.downcast[1].kind = "Method")
                => \A n \in 1..3 :
                    calls[n] =
                        {[fn_path |-> <<TraitIdent, impler.downcast[1].name>>,
                          args |-> IF impler.downcast[1].with_context
                                   THEN <<"self", "FromContext::from(context)">>
                                   ELSE <<"self">>]}
            /\ is_none(impler.downcast)
                => \A n \in 1..3 : calls[n] = {}

\* C20 happens: one implementer is downcast by a method taking the context,
\* the other by a method taking none, and both calls are emitted.
C20_Witness ==
    /\ Expanded
    /\ Len(Def.implementers) = 2
    /\ \E i, j \in 1..2 :
        /\ is_some(Def.implementers[i].downcast)
        /\ Def.implementers[i].downcast[1].kind = "Method"
        /\ Def.implementers[i].downcast[1].with_context
        /\ is_some(Def.implementers[j].downcast)
        /\ Def.implementers[j].downcast[1].kind = "Method"
        /\ ~Def.implementers[j].downcast[1].with_context
        /\ downcast_calls(tokens, Def.implementers[i].ty)[1] # {}
        /\ downcast_calls(tokens, Def.implementers[j].ty)[1] # {}

\* C20 happens for an implementer without strategy too: the enum is emitted
\* and narrows to it structurally only.
C20_WitnessNoStrategy ==
    /\ Expanded
    /\ \E i \in 1..Len(Def.implementers) :
        /\ is_none(Def.implementers[i].downcast)
        /\ downcast_calls(tokens, Def.implementers[i].ty) = <<{}, {}, {}>>

(***************************************************************************)
(* Properties of from_attrs, continued                                     *)
(***************************************************************************)
\* The options that have several spellings, per parser: the field they set,
\* the spellings, and whether a value follows the key.
Aliases(k) ==
    CASE k = "InterfaceMeta" ->
            {[option |-> "description", keys |-> {"desc", "description"},
              val |-> Some(ArgValue)],
             [option |-> "context", keys |-> {"ctx", "context", "Context"},
              val |-> Some(ArgValue)],
             [option |-> "scalar",
              keys |-> {"scalar", "Scalar", "ScalarValue"},
              val |-> Some(ArgValue)]}
      [] k = "ImplementerMeta" ->
            {[option |-> "scalar",
              keys |-> {"scalar", "Scalar", "ScalarValue"},
              val |-> Some(ArgValue)]}
      [] k = "TraitMethodMeta" ->
            {[option |-> "description", keys |-> {"desc", "description"},
              val |-> Some(ArgValue)],
             [option |-> "ignore", keys |-> {"ignore", "skip"},
              val |-> None]}
      [] k = "ArgumentMeta" ->
            {[option |-> "description", keys |-> {"desc", "description"},
              val |-> Some(ArgValue)],
             [option |-> "context", keys |-> {"ctx", "context", "Context"},
              val |-> None],
             [option |-> "executor", keys |-> {"exec", "executor"},
              val |-> None]}

\* C24: within one parser, two occurrences that use different spellings of
\* the same option (desc/description; ctx/context/Context;
\* scalar/Scalar/ScalarValue; ignore/skip; exec/executor) are a
\* duplicate-argument error exactly as two occurrences of the same spelling
\* are, both inside one annotation site and across two sites. In the run:
\* an option written twice in one site ends in the duplicate-argument error,
\* and written in two sites in an error. At every point of a parse: whatever
\* spelling comes next, any spelling after it is the duplicate-argument
\* error naming it, and a site holding the option under any spelling does
\* not merge with this one, in either order.
C24_AliasKeysDenoteOneOption ==
    \A a \in Aliases(kind) :
        /\ Done /\ (\E i \in 1..Len(written) : written[i][a.option] >= 2)
            => result.status = "err" /\ result.err.kind = "dup_arg"
                /\ result.err.arg \in a.keys
        /\ Done /\ Cardinality(SitesOf(a.option)) >= 2
            => result.status = "err"
        /\ pc = "parse" =>
            \A k1 \in a.keys :
            \A first \in {Parse(kind, output, Arg(k1, a.val, <<>>))} :
                /\ ~first.ok => first.err = dup_arg(k1)
                /\ first.ok =>
                    \A k2 \in a.keys :
                    \A other \in {Parse(kind, Default(kind),
                                        Arg(k2, a.val, <<>>))} :
                        /\ Parse(kind, first.val, Arg(k2, a.val, <<>>))
                            = Err(dup_arg(k2))
                        /\ other.ok
                        /\ \A merged \in {TryMerge(kind, first.val, other.val),
                                          TryMerge(kind, other.val, first.val)} :
                            ~merged.ok /\ merged.err.kind = "dup_arg"

\* C24 happens: an argument was marked `ctx` and then `Context` in the same
\* attribute, and the duplicate-argument error names the second spelling.
C24_Witness ==
    /\ kind = "ArgumentMeta"
    /\ Done
    /\ Len(written) = 1
    /\ written[1]["context"] = 2
    /\ output.context = Some("ctx")
    /\ result.err = dup_arg("Context")

\* C24 happens across sites: `ignore` in the first attribute, `skip` in the
\* second, and the merge fails.
C24_WitnessAcrossSites ==
    /\ kind = "TraitMethodMeta"
    /\ Done
    /\ prev.ignore = Some("ignore")
    /\ output.ignore = Some("skip")
    /\ SitesOf("ignore") = {1, 2}
    /\ result.err = dup_arg("ignore")

\* C21: for an interface and for a method, when a `desc`/`description`
\* option is written the returned description is that option's value even
\* if a doc comment exists, and only when no such option is written is the
\* doc comment (if any) used; the same precedence holds for a method's
\* `deprecated` option over the Rust #[deprecated] attribute.
C21_ExplicitOptionBeforeAttribute ==
    ReturnedOk =>
        /\ kind \in {"InterfaceMeta", "TraitMethodMeta"} =>
            /\ Written("description") > 0 <=> is_some(prev.description)
            /\ Meta.description =
                IF Written("description") > 0 THEN Some(ArgValue)
                ELSE get_doc_comment(attrs)
        /\ kind = "TraitMethodMeta" =>
            /\ Written("deprecated") > 0 <=> is_some(prev.deprecated)
            /\ Meta.deprecated =
                IF Written("deprecated") > 0 THEN prev.deprecated
                ELSE get_deprecated(attrs)
            /\ Written("deprecated") > 0 =>
                prev.deprecated \in {Some(None), Some(Some(ArgValue))}

\* C21 happens: a method with a doc comment and #[deprecated(note = ..)]
\* has `description` and a bare `deprecated` written, and the record holds
\* the written value and no reason.
C21_Witness ==
    /\ ReturnedOk
    /\ kind = "TraitMethodMeta"
    /\ attrs = [doc_comment |-> Some("doc comment"),
                deprecated |-> Some(Some("reason"))]
    /\ Written("description") = 1
    /\ Written("deprecated") = 1
    /\ Meta.description = Some(ArgValue)
    /\ Meta.deprecated = Some(None)

\* C21 happens the other way too: nothing is written and the doc comment and
\* the attribute's reason are used.
C21_WitnessFallback ==
    /\ ReturnedOk
    /\ kind = "TraitMethodMeta"
    /\ Written("description") = 0
    /\ Written("deprecated") = 0
    /\ Meta.description = Some("doc comment")
    /\ Meta.deprecated = Some(Some("reason"))

\* C25: the ignore/downcast composability check looks only at explicitly
\* written options: a method marked `ignore` or `downcast` that also has a
\* doc comment or a Rust #[deprecated] attribute is accepted by
\* TraitMethodMeta::from_attrs, and the returned record then holds the flag
\* together with the description/deprecation filled in from those
\* attributes.
C25_FlagsAcceptedWithDocAndDeprecated ==
    kind = "TraitMethodMeta" =>
        \A f \in {"ignore", "downcast"} :
            (/\ Done
             /\ result.err.kind \notin {"dup_arg", "unknown_arg", "syntax"}
             /\ Written(f) >= 1
             /\ \A o \in TraitMethodMeta_others(f) : Written(o) = 0)
                => /\ result.status = "ok"
                   /\ is_some(Meta[f])
                   /\ Meta[f] = prev[f]
                   /\ Meta.description = get_doc_comment(attrs)
                   /\ Meta.deprecated = get_deprecated(attrs)
                   /\ Meta.name = None

\* C25 happens: a method with a doc comment and #[deprecated(note = ..)] is
\* marked `skip`, and the record holds the flag, the doc comment and the
\* reason.
C25_Witness ==
    /\ kind = "TraitMethodMeta"
    /\ ReturnedOk
    /\ Written("ignore") = 1
    /\ Meta.ignore = Some("skip")
    /\ Meta.description = Some("doc comment")
    /\ Meta.deprecated = Some(Some("reason"))

\* C25 happens for `downcast` as well.
C25_WitnessDowncast ==
    /\ kind = "TraitMethodMeta"
    /\ ReturnedOk
    /\ Meta.downcast = Some("downcast")
    /\ Meta.description = Some("doc comment")
    /\ Meta.deprecated = Some(None)

\* C29: the `internal` flag of InterfaceMeta is exempt from the
\* set-at-most-once rule: writing `internal` several times in one annotation
\* site or in several sites never yields a duplicate-argument error, and the
\* merged is_internal is the logical OR of the per-site values (true iff at
\* least one site sets it).
C29_InternalFlagMergesByOr ==
    kind = "InterfaceMeta" =>
        /\ Done /\ result.status = "err"
            => result.err.arg \notin {"internal", "is_internal"}
        /\ pc = "parse" =>
            /\ Parse(kind, output, Arg("internal", None, <<>>))
                = Ok([output EXCEPT !.is_internal = TRUE])
            /\ output.is_internal <=> written[Len(written)]["is_internal"] > 0
            /\ prev.is_internal <=>
                \E i \in 1..(Len(written) - 1) : written[i]["is_internal"] > 0
            /\ LET merged == TryMerge(kind, prev, output) IN
                merged.ok => (merged.val.is_internal
                                <=> prev.is_internal \/ output.is_internal)
        /\ pc = "fold" => (prev.is_internal <=> Written("is_internal") > 0)
        /\ ReturnedOk => (Meta.is_internal <=> Written("is_internal") > 0)

\* C29 happens: `internal` is written in both attributes of a trait, and the
\* record is returned with is_internal set.
C29_Witness ==
    /\ kind = "InterfaceMeta"
    /\ ReturnedOk
    /\ SitesOf("is_internal") = {1, 2}
    /\ Meta.is_internal

\* C29 happens inside one attribute: `internal, internal`, followed by an
\* attribute without it.
C29_WitnessOneSite ==
    /\ kind = "InterfaceMeta"
    /\ ReturnedOk
    /\ Len(written) = 2
    /\ written[1]["is_internal"] = 2
    /\ written[2]["is_internal"] = 0
    /\ Meta.is_internal

C22_WitnessSpecified ==
    /\ Expanded
    /\ Def.ty.repr = "TraitObject"
    /\ is_some(IMeta.context)
    /\ Artifact("type alias").context_ty = IMeta.context[1]
    /\ Artifact("impl GraphQLValueAsync").for.context_ty = IMeta.context[1]

\* The arms of an emitted match that name `field` in their pattern.
arms_for(arms, field) ==
    {i \in 1..Len(arms) :
        \E p \in 1..Len(arms[i].arm) : arms[i].arm[p] = field}

\* Field dispatch of the emitted code: every field has one arm of its own in
\* resolve_field, a resolver when it is synchronous and the rejection when it
\* is async, and one resolver arm in resolve_field_async.
one_arm_per_field(def, toks) ==
    LET sync == artifact_of(toks, "impl GraphQLValue").resolve_field
        async == artifact_of(toks, "impl GraphQLValueAsync")
                    .resolve_field_async IN
    \A k \in 1..Len(def.fields) :
        LET field == def.fields[k] IN
        /\ Cardinality(arms_for(sync, field.name)) = 1
        /\ \A i \in arms_for(sync, field.name) :
            /\ ("call" \in DOMAIN sync[i]) <=> ~field.is_async
            /\ ("panic" \in DOMAIN sync[i]) <=> field.is_async
            /\ ~field.is_async => sync[i].call.method = field.method
        /\ Cardinality(arms_for(async, field.name)) = 1
        /\ \A i \in arms_for(async, field.name) :
            /\ "call" \in DOMAIN async[i]
            /\ async[i].call.method = field.method

\* Only names of no field reach the unknown-field arm.
unknown_arm_for_no_field(def, toks) ==
    LET sync == artifact_of(toks, "impl GraphQLValue").resolve_field
        async == artifact_of(toks, "impl GraphQLValueAsync")
                    .resolve_field_async IN
    \A f \in FieldNames :
        /\ match_arm(sync, f).arm = <<"_">> <=> f \notin field_names(def)
        /\ match_arm(async, f).arm = <<"_">> <=> f \notin field_names(def)

\* C23: for every Definition, each field name has exactly one arm in the
\* emitted synchronous resolve_field (a resolver arm when the field is
\* synchronous, the async-rejection arm when it is async, never both and
\* never neither) and exactly one resolver arm in the emitted
\* resolve_field_async, so only names of no field reach the unknown-field
\* arm.
C23_OneArmPerFieldName ==
    Expanded =>
        /\ one_arm_per_field(Def, tokens)
        /\ unknown_arm_for_no_field(Def, tokens)

\* C23 for the Definitions whose fields have pairwise different names.
C23_OneArmPerDistinctFieldName ==
    (Expanded /\ Cardinality(field_names(Def)) = Len(Def.fields)) =>
        /\ one_arm_per_field(Def, tokens)
        /\ unknown_arm_for_no_field(Def, tokens)

\* C23 fails here: method `label` is exposed under the name `id`, as method
\* `id` is, and both resolvers have two arms for `id`, of which the first
\* is the only one ever taken.
C23_Witness ==
    /\ Expanded
    /\ Len(Def.fields) = 2
    /\ Def.fields[1].name = "id" /\ Def.fields[1].method = "id"
    /\ Def.fields[2].name = "id" /\ Def.fields[2].method = "label"
    /\ Cardinality(arms_for(
            Artifact("impl GraphQLValue").resolve_field, "id")) = 2
    /\ Cardinality(arms_for(
            Artifact("impl GraphQLValueAsync").resolve_field_async, "id")) = 2
    /\ resolve_field(tokens, "id").call.method = "id"

\* The implementer types the emitted metadata registers, in emitted order.
registrations_of(graphql_type) ==
    LET calls == SelectSeq(graphql_type.meta, LAMBDA c : c.call = "get_type")
    IN [i \in 1..Len(calls) |-> calls[i].ty]

\* The Definition with its implementers listed in the order `perm`.
permuted(def, perm) ==
    [def EXCEPT !.implementers = [i \in 1..Len(perm) |-> @[perm[i]]]]

\* C26: the order in which implementer types are registered in the emitted
\* type metadata is the lexicographic order of their rendered type text and
\* does not depend on the order of Definition.implementers: two Definitions
\* whose implementer lists are permutations of each other emit the same
\* registration sequence.
C26_RegistrationOrderLexicographic ==
    Expanded =>
        LET regs == registrations_of(Artifact("impl GraphQLType")) IN
        /\ {regs[i] : i \in 1..Len(regs)}
            = {Def.implementers[i].ty : i \in 1..Len(Def.implementers)}
        /\ \A i \in 1..Len(regs), j \in 1..Len(regs) :
            i < j => str_lt(type_text(regs[i]), type_text(regs[j]))
        /\ \A perm \in Orders(1..Len(Def.implementers)) :
            registrations_of(
                Definition_impl_graphql_type_tokens(permuted(Def, perm)))
            = regs

\* C26 happens: the Definition lists User before Post, and Post is
\* registered before User.
C26_Witness ==
    /\ Expanded
    /\ Len(Def.implementers) = 2
    /\ Def.implementers[1].ty = "User"
    /\ Def.implementers[2].ty = "Post"
    /\ registrations_of(Artifact("impl GraphQLType")) = <<"Post", "User">>

\* The Regular arguments of a field, in declared order.
regular_arguments(field) ==
    SelectSeq(field.arguments, LAMBDA arg : arg.kind = "Regular")

\* The types marked as input types for the k-th field: the IsInputType marks
\* between the output mark of the field before it and its own.
input_marks(marks, k) ==
    LET outs == {i \in 1..Len(marks) : marks[i].mark = "IsOutputType"}
        nth(n) == IF n = 0 THEN 0
                  ELSE CHOOSE i \in outs :
                        Cardinality({j \in outs : j <= i}) = n IN
    [j \in 1..(nth(k) - nth(k - 1) - 1) |-> marks[nth(k - 1) + j].ty]

\* The value the emitted call passes for an argument.
passed_for(arg) ==
    CASE arg.kind = "Regular" ->
            [expr |-> "args.get", name |-> arg.name, ty |-> arg.ty]
      [] arg.kind = "Context" ->
            [expr |-> "FromContext::from(executor.context())"]
      [] arg.kind = "Executor" -> [expr |-> "&executor"]

\* C27: for every field, the emitted field metadata and the input-type
\* markers contain exactly the field's Regular arguments in declared order
\* and never a Context or Executor argument, while the emitted method call
\* passes one value per argument of all three kinds in declared order
\* (argument lookup by name for Regular, the executor's context for Context,
\* the executor for Executor).
C27_OnlyRegularArgumentsInSchema ==
    Expanded =>
        \A k \in 1..Len(Def.fields) :
            LET field == Def.fields[k]
                regular == regular_arguments(field)
                meta == FieldsMeta[k].arguments
                marks == input_marks(Artifact("impl IsOutputType").marks, k)
                async == Artifact("impl GraphQLValueAsync")
                            .resolve_field_async[k]
                sync == Artifact("impl GraphQLValue").resolve_field
                passed == [i \in 1..Len(field.arguments) |->
                                passed_for(field.arguments[i])] IN
            /\ [i \in 1..Len(meta) |-> <<meta[i].name, meta[i].ty>>]
                = [i \in 1..Len(regular) |-> <<regular[i].name, regular[i].ty>>]
            /\ \A i \in 1..Len(meta) :
                meta[i].call = IF is_some(regular[i].default)
                               THEN "arg_with_default" ELSE "arg"
            /\ marks = [i \in 1..Len(regular) |-> regular[i].ty]
            /\ async.call.method = field.method
            /\ async.arguments = <<[expr |-> "self"]>> \o passed
            /\ \A i \in 1..Len(sync) :
                ("call" \in DOMAIN sync[i]
                    /\ sync[i].call.method = field.method)
                    => sync[i].arguments = <<[expr |-> "self"]>> \o passed

\* C27 happens: `title` declares a Regular, a Context, an Executor and
\* another Regular argument; its metadata has the two Regular ones and its
\* call passes four values after self.
C27_Witness ==
    /\ Expanded
    /\ Len(Def.fields) = 2
    /\ Def.fields[2].name = "title"
    /\ ~Def.fields[2].is_async
    /\ Len(Def.fields[2].arguments) = 4
    /\ Len(FieldsMeta[2].arguments) = 2
    /\ FieldsMeta[2].arguments[1].name = "first"
    /\ FieldsMeta[2].arguments[2].name = "second"
    /\ input_marks(Artifact("impl IsOutputType").marks, 2) = <<"i32", "String">>
    /\ Len(resolve_field(tokens, "title").arguments) = 5

\* C28: a downcast call built for an implementer with strategy
\* External{path} always passes the current resolution context as second
\* argument after the polymorphic instance; unlike the Method strategy there
\* is no way to obtain an external downcast call without the context
\* argument.
C28_ExternalDowncastPassesContext ==
    Expanded =>
        \A i \in 1..Len(Def.implementers) :
            LET impler == Def.implementers[i]
                calls == downcast_calls(tokens, impler.ty) IN
            /\ (is_some(impler.downcast)
                    /\ impler.downcast[1].kind = "External")
                => /\ DOMAIN impler.downcast[1] = {"kind", "path"}
                   /\ \A n \in 1..3 :
                        calls[n] =
                            {[fn_path |-> <<impler.downcast[1].path>>,
                              args |-> <<"self", "FromContext::from(context)">>]}
            /\ \A path \in Paths :
                ImplementerDefinition_downcast_call_tokens(
                    [impler EXCEPT !.downcast =
                        Some([kind |-> "External", path |-> path])])[1].args
                = <<"self", "FromContext::from(context)">>

\* C28 happens: User is downcast by the external function registered for
\* it, no context type is specified, and the call still passes the context.
C28_Witness ==
    /\ Expanded
    /\ is_none(Def.context)
    /\ \E i \in 1..Len(Def.implementers) :
        /\ Def.implementers[i].ty = "User"
        /\ Def.implementers[i].downcast = Some([kind |-> "External",
                                                path |-> "as_a"])
        /\ downcast_calls(tokens, "User")[1] =
            {[fn_path |-> <<"as_a">>,
              args |-> <<"self", "FromContext::from(context)">>]}

(***************************************************************************)
(* GenericsExt for syn::Generics: remove_defaults and                      *)
(* move_bounds_to_where_clause, called on a clone of the generics of a     *)
(* trait declaration.                                                      *)
(*                                                                         *)
(* A parameter, as syn parses it:                                          *)
(*   kind         "Type", "Lifetime" or "Const"                            *)
(*   ident        its name                                                 *)
(*   colon_token  whether a `:` follows the name                           *)
(*   bounds       the bounds after the colon (none without a colon)        *)
(*   eq_token, default   the `= default` of a type or const parameter      *)
(***************************************************************************)
TypeParams ==
    {[kind |-> "Type", colon_token |-> c[1], bounds |-> c[2],
      eq_token |-> is_some(d), default |-> d] :
        c \in {<<FALSE, <<>>>>, <<TRUE, <<>>>>, <<TRUE, <<"Clone">>>>,
               <<TRUE, <<"Clone", "Send">>>>},
        d \in {None, Some("i32")}}

LifetimeParams ==
    {[kind |-> "Lifetime", colon_token |-> c[1], bounds |-> c[2],
      eq_token |-> FALSE, default |-> None] :
        c \in {<<FALSE, <<>>>>, <<TRUE, <<>>>>, <<TRUE, <<"'static">>>>}}

ConstParams ==
    {[kind |-> "Const", colon_token |-> FALSE, bounds |-> <<>>,
      eq_token |-> is_some(d), default |-> d] : d \in {None, Some("0")}}

GenericParams == TypeParams \cup LifetimeParams \cup ConstParams

\* The name of the parameter at position n.
param_ident(p, n) ==
    (CASE p.kind = "Type" -> "T"
       [] p.kind = "Lifetime" -> "'l"
       [] p.kind = "Const" -> "N") \o ToString(n)

\* The generics a trait declaration can be parsed to: up to MaxParams
\* parameters and the where clause the declaration was written with.
ParsedGenerics ==
    {[params |-> [n \in 1..Len(ps) |->
                    [ident |-> param_ident(ps[n], n),
                     kind |-> ps[n].kind,
                     colon_token |-> ps[n].colon_token,
                     bounds |-> ps[n].bounds,
                     eq_token |-> ps[n].eq_token,
                     default |-> ps[n].default]],
      predicates |-> w] :
        ps \in UNION {[1..n -> GenericParams] : n \in 0..MaxParams},
        w \in {<<>>, <<[ty |-> "Self", bounds |-> <<"Sized">>]>>}}

remove_defaults(generics) ==
    [generics EXCEPT !.params =
        [n \in 1..Len(@) |->
            IF @[n].kind \in {"Type", "Const"}
            THEN [@[n] EXCEPT !.eq_token = FALSE, !.default = None]
            ELSE @[n]]]

\* The predicates pushed for the parameters from position n on.
RECURSIVE moved_predicates(_, _)
moved_predicates(params, n) ==
    IF n > Len(params) THEN <<>>
    ELSE (IF params[n].kind \in {"Type", "Lifetime"} /\ params[n].colon_token
          THEN <<[ty |-> params[n].ident, bounds |-> params[n].bounds]>>
          ELSE <<>>)
         \o moved_predicates(params, n + 1)

\* A predicate is pushed only for a parameter whose bounds are not empty.
move_bounds_of_bounded_only(generics) ==
    [params |-> [n \in 1..Len(generics.params) |->
                    LET p == generics.params[n] IN
                    IF p.kind \in {"Type", "Lifetime"} /\ p.colon_token
                    THEN [p EXCEPT !.colon_token = FALSE, !.bounds = <<>>]
                    ELSE p],
     predicates |-> generics.predicates
        \o SelectSeq(moved_predicates(generics.params, 1),
                     LAMBDA w : w.bounds # <<>>)]

move_bounds_to_where_clause(generics) ==
    [params |-> [n \in 1..Len(generics.params) |->
                    LET p == generics.params[n] IN
                    IF p.kind \in {"Type", "Lifetime"} /\ p.colon_token
                    THEN [p EXCEPT !.colon_token = FALSE, !.bounds = <<>>]
                    ELSE p],
     predicates |-> generics.predicates
                    \o moved_predicates(generics.params, 1)]

\* The generics of a trait are parsed and cloned.
InitExt ==
    /\ AttrIdle
    /\ GenIdle
    /\ trait_generics \in ParsedGenerics
    /\ cloned = trait_generics
    /\ ext_calls = <<>>

\* generics.remove_defaults()
RemoveDefaults ==
    /\ Len(ext_calls) < MaxCalls
    /\ cloned' = remove_defaults(cloned)
    /\ ext_calls' = Append(ext_calls, "remove_defaults")
    /\ UNCHANGED <<trait_generics, attrvars, genvars>>

\* generics.move_bounds_to_where_clause()
MoveBoundsToWhereClause ==
    /\ Len(ext_calls) < MaxCalls
    /\ cloned' = move_bounds_to_where_clause(cloned)
    /\ ext_calls' = Append(ext_calls, "move_bounds_to_where_clause")
    /\ UNCHANGED <<trait_generics, attrvars, genvars>>

NextExt == RemoveDefaults \/ MoveBoundsToWhereClause

SpecExt == InitExt /\ [][NextExt]_vars

(***************************************************************************)
(* Properties of GenericsExt                                               *)
(***************************************************************************)
Called(method) == \E n \in 1..Len(ext_calls) : ext_calls[n] = method

\* The parameters written with a colon, which is what the bounds of a
\* parameter are moved by: `T: Clone` and also `T:`.
with_bounds(params) ==
    SelectSeq(params, LAMBDA p : p.kind \in {"Type", "Lifetime"}
                                  /\ p.colon_token)

C30_WitnessConstAndEmptyBounds ==
    /\ Called("move_bounds_to_where_clause")
    /\ Called("remove_defaults")
    /\ Len(trait_generics.params) = 2
    /\ trait_generics.params[1].kind = "Const"
    /\ trait_generics.params[1].default = Some("0")
    /\ cloned.params[1].default = None
    /\ trait_generics.params[2].kind = "Type"
    /\ trait_generics.params[2].colon_token
    /\ trait_generics.params[2].bounds = <<>>
    /\ cloned.predicates = <<[ty |-> "T2", bounds |-> <<>>]>>

====
